---------------------------- MODULE Spec2Model ----------------------------
(***************************************************************************)
(* A model of the xpra AI control plugin (src/src/plugin.py) and of its    *)
(* per-window framebuffers (src/framebuffer.py).                           *)
(*                                                                         *)
(* Three threads share the plugin object without any lock around the mode  *)
(* gate: the host's packet/callback thread (filter_input, on_draw, ...),   *)
(* the control handler thread (_control_handler_loop) and the frame        *)
(* publisher thread (_frame_publisher_loop).  Each thread is a program     *)
(* counter plus its locals; one action is one stretch of code between two  *)
(* accesses to state another thread can write.                             *)
(*                                                                         *)
(* Time is an integer number of milliseconds (time.time() * 1000).         *)
(***************************************************************************)
EXTENDS Integers, Sequences, FiniteSets, TLC

(***************************************************************************)
(* Bounds of the model.                                                    *)
(***************************************************************************)
\* largest configured human_priority_ms the model draws
MaxPriorityMs == 1
\* number of clock ticks the model lets pass
MaxTicks == 2
\* configured zmq.event_hwm: depth of the event channel's queue
EventHwm == 1

\* configured zmq.frame_hwm: depth of the frame channel's queue
FrameHwm == 1
\* largest publish period (1000 / fps, in ms) the model draws
MaxInterval == 1
\* window identifiers the host uses: 1..MaxWid
MaxWid == 2
\* largest sequence counter a framebuffer reaches
MaxSeq == 2
\* configured frame_capture.max_dimension, scaled down
MaxDim == 2

Wids == 1..MaxWid
\* names of the WindowFramebuffer objects: the object registered for wid
\* is named wid; an object that left the registry while the publisher still
\* holds it (one per wid at most, the one its copied list names) is named
\* MaxWid + wid
FbIds == 1..(2 * MaxWid)

\* the clock at construction: time.time() is far from 0.0, the initial
\* value of _human_last_input, so the first elapsed time exceeds any window
StartTime == MaxPriorityMs + 1
MaxTime == StartTime + MaxTicks

(***************************************************************************)
(* protocol.py: the enumerations.                                          *)
(***************************************************************************)
OBSERVER == "observer"
SUPERVISED == "supervised"
AUTONOMOUS == "autonomous"
COLLABORATIVE == "collaborative"
InputMode == {OBSERVER, SUPERVISED, AUTONOMOUS, COLLABORATIVE}

KILL_SWITCH == "kill_switch"
MODE_CHANGE == "mode_change"

ActionType == {"click", "double_click", "right_click", "mouse_move",
               "mouse_down", "mouse_up", "scroll", "key_press", "key_down",
               "key_up", "type_text", "set_clipboard"}

QueryType == {"window_list", "window_info", "focused_window", "clipboard",
              "screenshot", "current_mode"}

VARIABLES
    \* ---- AIControlPlugin fields and configuration
    mode,               \* self.mode
    human_last_input,   \* self._human_last_input (ms)
    autonomous_start,   \* self._autonomous_start (ms)
    human_priority_ms,  \* self.config.control.human_priority_ms
    now,                \* the wall clock, time.time() in ms
    \* ---- the event PUB channel
    event_depth,        \* messages queued on the event socket (<= EventHwm)
    \* ---- host thread inside filter_input
    in_pc,              \* position of the host thread in filter_input
    in_packet,          \* the (input_type, packet) being filtered
    in_ks,              \* result of _is_kill_switch for this call
    in_old_mode,        \* old_mode local of _trigger_kill_switch
    in_result,          \* the value filter_input returns
    in_published,       \* events this call got onto the event channel
    \* ---- history of the mode gate
    kill_active,        \* a kill switch forced observer and no change_mode
                        \* has granted authority since
    collab_since,       \* time of the latest human input filtered in
                        \* collaborative mode since the last mode write, or -1
    \* ---- control handler thread (_control_handler_loop)
    ctl_pc,             \* position of the control thread
    ctl_raw,            \* the request read from the REP socket
    ctl_can_act,        \* what ai_can_act() returned to _handle_action
    ctl_old_mode,       \* old_mode local of _handle_mode_change
    ctl_inject,         \* the injection routine call made for this request
    ctl_resp,           \* the ControlResponse built (and, once sent, sent)
    ctl_sent,           \* responses sent for this request
    ctl_published,      \* events this request got onto the event channel
    rep_awaiting,       \* REP socket: a request was received, reply is due
    \* ---- FramebufferManager, WindowFramebuffer objects, window metadata
    buffers,            \* FramebufferManager._buffers, a dict in insertion
                        \* order: the sequence of its keys
    fbs,                \* the WindowFramebuffer objects, by object name
    window_meta,        \* wids with an entry in self._window_meta
    focused_wid,        \* self._focused_wid
    \* ---- frame publisher thread (_frame_publisher_loop) and its channel
    delta_only,         \* self.config.frame_capture.delta_only
    interval,           \* 1000 / fps: the publish period in ms
    fr_pc,              \* position of the frame publisher thread
    fr_now,             \* now local of get_dirty_snapshots
    fr_list,            \* buffers local: the objects still to visit
    fr_cur,             \* fb: the object whose snapshot is being recorded
    fr_results,         \* results local, then snapshots of the for loop
    fr_wake,            \* the time at which time.sleep(interval) returns
    frame_depth,        \* messages queued on the frame socket (<= FrameHwm)
    emitted,            \* history: per wid, the sequence of the last entry
                        \* get_dirty_snapshots returned for it (0: none)
    codec,              \* a message on its way through serialise and
                        \* deserialise (protocol.py)
    wfb,                \* one WindowFramebuffer with its image, pixel by
                        \* pixel, and the result of its last snapshot()
    lifecycle,          \* self._running, the position of shutdown(), the
                        \* sockets it has closed and where the two worker
                        \* threads are in their loops
    hooks,              \* install_hooks: the draw packets the server has
                        \* processed through hooked_draw and what became
                        \* of them
    agent,              \* the client (agent.py): AIAgent._latest_frames
                        \* and a call of wait_for_frame
    last_new_mode,      \* history: the new_mode of the mode change or kill
                        \* switch event handed to _publish_event last
    fr_data             \* the image sizes of the data in fr_results, and
                        \* of the data get_dirty_snapshots is recording

gateVars == <<mode, human_last_input, autonomous_start, human_priority_ms,
              kill_active, collab_since>>
chanVars == <<event_depth>>
inVars == <<in_pc, in_packet, in_ks, in_old_mode, in_result, in_published>>
ctlVars == <<ctl_pc, ctl_raw, ctl_can_act, ctl_old_mode, ctl_inject, ctl_resp,
             ctl_sent, ctl_published, rep_awaiting>>
winVars == <<buffers, fbs, window_meta, focused_wid>>
frVars == <<emitted, delta_only, interval, fr_pc, fr_now, fr_list, fr_cur,
            fr_results, fr_wake, frame_depth>>
pureVars == <<codec, wfb>>
offVars == <<pureVars, lifecycle, hooks, agent, last_new_mode, fr_data>>
vars == <<gateVars, now, chanVars, inVars, ctlVars, winVars, frVars,
          offVars>>

NoPacket == [input_type |-> "none", keyname |-> "", modifiers |-> {}]
NoMode == "none"

(***************************************************************************)
(* Input events the host may deliver: (input_type, packet[2], packet[4]).  *)
(* A packet too short to hold a key name or modifiers reads as "" and {}.  *)
(***************************************************************************)
InputTypes == {"key-action", "pointer-button"}
KeyNames == {"Pause", "PAUSE", "a", ""}
ModifierLists == {{}, {"Ctrl"}, {"control", "shift"}, {"ctrl", "shift"}}
InputEvents == [input_type : InputTypes, keyname : KeyNames,
                modifiers : ModifierLists]

\* str.lower() on the strings of the model
Lower(s) ==
    CASE s = "Pause" -> "pause"
      [] s = "PAUSE" -> "pause"
      [] s = "Ctrl" -> "ctrl"
      [] OTHER -> s

\* config.control.kill_switch "ctrl+Pause", as its "+"-separated parts
KillSwitchParts == <<"ctrl", "Pause">>

\* a kill switch test that compares the key name as it was typed
IsKillSwitch_CaseSensitive(input_type, keyname, modifiers) ==
    IF input_type # "key-action" THEN FALSE
    ELSE LET parts == [i \in 1..Len(KillSwitchParts) |->
                          Lower(KillSwitchParts[i])]
             key_part == parts[Len(parts)]
             mod_parts == {parts[i] : i \in 1..(Len(parts) - 1)}
         IN  /\ keyname = key_part
             /\ mod_parts \subseteq {Lower(m) : m \in modifiers}

\* _is_kill_switch: lower-case the configured combination, take the last
\* part as the key and the others as required modifiers
IsKillSwitch(input_type, keyname, modifiers) ==
    IF input_type # "key-action" THEN FALSE
    ELSE LET parts == [i \in 1..Len(KillSwitchParts) |->
                          Lower(KillSwitchParts[i])]
             key_part == parts[Len(parts)]
             mod_parts == {parts[i] : i \in 1..(Len(parts) - 1)}
         IN  /\ Lower(keyname) = key_part
             /\ mod_parts \subseteq {Lower(m) : m \in modifiers}

\* ai_can_act line 211: the modes in which the agent acts at any time
ActsAnyTime(m) == m \in {AUTONOMOUS, SUPERVISED}

\* a priority window that ends one instant early
PriorityElapsed_Inclusive == (now - human_last_input) >= human_priority_ms

\* ai_can_act lines 214-215: the human has been idle for longer than the
\* priority window
PriorityElapsed == (now - human_last_input) > human_priority_ms

\* ai_can_act, evaluated in one piece
AiCanAct ==
    IF ActsAnyTime(mode) THEN TRUE
    ELSE IF mode = COLLABORATIVE THEN PriorityElapsed
         ELSE FALSE


(***************************************************************************)
(* Event publishing.  _publish_event sends with zmq.NOBLOCK and swallows   *)
(* zmq.Again: an event offered to a full channel is dropped silently.  An  *)
(* event is produced once it has been built and handed to the socket.      *)
(***************************************************************************)
\* _publish_event line 576: the socket takes the message
EventAccepted == event_depth < EventHwm

\* _publish_event: the channel after the send, and the events a caller has
\* produced once it has offered ev
PublishEvent(ev) ==
    IF EventAccepted
    THEN event_depth' = event_depth + 1
    ELSE UNCHANGED chanVars

Published(sofar, ev) == Append(sofar, ev)

ModeEvent(type, old, new) ==
    [event_type |-> type, wid |-> 0, old_mode |-> old, new_mode |-> new]

\* a subscriber takes one event off the channel
EventSubscriber ==
    /\ event_depth > 0
    /\ event_depth' = event_depth - 1
    /\ UNCHANGED <<gateVars, now, inVars, ctlVars, winVars, frVars, offVars>>

\* time passes
Tick ==
    /\ now < MaxTime
    /\ now' = now + 1
    /\ UNCHANGED <<gateVars, chanVars, inVars, ctlVars, winVars, frVars, offVars>>

(***************************************************************************)
(* The host thread: install_hooks' input hook calls filter_input for each  *)
(* pointer or key packet.                                                  *)
(***************************************************************************)
\* the hooked packet handler is entered with a packet
FilterInputCall(ev) ==
    /\ in_pc = "idle"
    /\ in_pc' = "ks_check"
    /\ in_packet' = ev
    /\ UNCHANGED <<in_ks, in_old_mode, in_result, in_published>>
    /\ UNCHANGED <<gateVars, now, chanVars, ctlVars, winVars, frVars, offVars>>

\* filter_input lines 169-180: the mode tests in the order made, each its
\* own read of self.mode, and the position of the thread before each
TestOrder == <<OBSERVER, AUTONOMOUS, SUPERVISED, COLLABORATIVE>>
TestPcs == <<"if_observer", "if_autonomous", "if_supervised",
             "if_collaborative">>

\* filter_input line 165: the kill switch test
FilterKsCheck ==
    /\ in_pc = "ks_check"
    /\ in_ks' = IsKillSwitch(in_packet.input_type, in_packet.keyname,
                             in_packet.modifiers)
    /\ in_pc' = IF in_ks' THEN "ks_read" ELSE TestPcs[1]
    /\ in_packet' = NoPacket
    /\ UNCHANGED <<in_old_mode, in_result, in_published>>
    /\ UNCHANGED <<gateVars, now, chanVars, ctlVars, winVars, frVars, offVars>>

\* _trigger_kill_switch line 203: old_mode = self.mode
TriggerKillRead ==
    /\ in_pc = "ks_read"
    /\ in_old_mode' = mode
    /\ in_pc' = "ks_write"
    /\ UNCHANGED <<in_packet, in_ks, in_result, in_published>>
    /\ UNCHANGED <<gateVars, now, chanVars, ctlVars, winVars, frVars, offVars>>

\* a kill switch that leaves the mode as it is
TriggerKillWrite_KeepMode ==
    /\ in_pc = "ks_write"
    /\ kill_active' = TRUE
    /\ collab_since' = -1
    /\ in_pc' = "ks_publish"
    /\ UNCHANGED <<mode, human_last_input, autonomous_start,
                   human_priority_ms>>
    /\ UNCHANGED <<in_packet, in_ks, in_old_mode, in_result, in_published>>
    /\ UNCHANGED <<now, chanVars, ctlVars, winVars, frVars, offVars>>

\* _trigger_kill_switch line 204: self.mode = InputMode.OBSERVER
TriggerKillWrite ==
    /\ in_pc = "ks_write"
    /\ mode' = OBSERVER
    /\ kill_active' = TRUE
    /\ collab_since' = -1
    /\ in_pc' = "ks_publish"
    /\ UNCHANGED <<human_last_input, autonomous_start, human_priority_ms>>
    /\ UNCHANGED <<in_packet, in_ks, in_old_mode, in_result, in_published>>
    /\ UNCHANGED <<now, chanVars, ctlVars, winVars, frVars, offVars>>

\* _trigger_kill_switch line 205 and filter_input line 167: publish the
\* kill switch event, return True
TriggerKillPublish ==
    /\ in_pc = "ks_publish"
    /\ PublishEvent(ModeEvent(KILL_SWITCH, in_old_mode, OBSERVER))
    /\ in_published' = Published(in_published,
                                 ModeEvent(KILL_SWITCH, in_old_mode, OBSERVER))
    /\ last_new_mode' = OBSERVER
    /\ in_result' = TRUE
    /\ in_pc' = "ret"
    /\ UNCHANGED <<in_packet, in_ks, in_old_mode>>
    /\ UNCHANGED <<gateVars, now, ctlVars, winVars, frVars, pureVars,
                   lifecycle, hooks, agent, fr_data>>

\* a gate that suppresses the human in supervised mode as well
FilterDecision_SupervisedSuppressed(m) == m \notin {AUTONOMOUS, SUPERVISED}

\* filter_input lines 169-182, what the branch for mode m returns: True
\* lets the event through, False suppresses it
FilterDecision(m) ==
    CASE m = OBSERVER -> TRUE
      [] m = AUTONOMOUS -> FALSE
      [] m = SUPERVISED -> TRUE
      [] m = COLLABORATIVE -> TRUE
      [] OTHER -> TRUE

\* filter_input lines 169-182: test i reads self.mode and compares it with
\* TestOrder[i]; a match returns the decision (the collaborative branch
\* goes on to its stamp), a mismatch goes to the next test and, after the
\* last, to the final return True
FilterModeTest(i) ==
    /\ in_pc = TestPcs[i]
    /\ IF mode = TestOrder[i]
       THEN IF TestOrder[i] = COLLABORATIVE
            THEN /\ in_pc' = "stamp"
                 /\ UNCHANGED in_result
            ELSE /\ in_pc' = "ret"
                 /\ in_result' = FilterDecision(TestOrder[i])
       ELSE IF i < Len(TestPcs)
            THEN /\ in_pc' = TestPcs[i + 1]
                 /\ UNCHANGED in_result
            ELSE /\ in_pc' = "ret"
                 /\ in_result' = TRUE
    /\ UNCHANGED <<in_packet, in_ks, in_old_mode, in_published>>
    /\ UNCHANGED <<gateVars, now, chanVars, ctlVars, winVars, frVars, offVars>>

\* a collaborative branch that forgets the time of the human input
FilterStamp_NoStamp ==
    /\ in_pc = "stamp"
    /\ collab_since' = IF mode = COLLABORATIVE THEN now ELSE -1
    /\ in_result' = TRUE
    /\ in_pc' = "ret"
    /\ UNCHANGED <<mode, human_last_input, autonomous_start,
                   human_priority_ms, kill_active>>
    /\ UNCHANGED <<in_packet, in_ks, in_old_mode, in_published>>
    /\ UNCHANGED <<now, chanVars, ctlVars, winVars, frVars, offVars>>

\* filter_input lines 179-180: record the time of the human input, return
\* True.  The history keeps the time only if the mode is collaborative
\* still.
FilterStamp ==
    /\ in_pc = "stamp"
    /\ human_last_input' = now
    /\ collab_since' = IF mode = COLLABORATIVE THEN now ELSE -1
    /\ in_result' = FilterDecision(COLLABORATIVE)
    /\ in_pc' = "ret"
    /\ UNCHANGED <<mode, autonomous_start, human_priority_ms, kill_active>>
    /\ UNCHANGED <<in_packet, in_ks, in_old_mode, in_published>>
    /\ UNCHANGED <<now, chanVars, ctlVars, winVars, frVars, offVars>>

\* filter_input returns to the hook, which forwards or drops the packet
FilterReturn ==
    /\ in_pc = "ret"
    /\ in_pc' = "idle"
    /\ in_ks' = FALSE
    /\ in_old_mode' = NoMode
    /\ in_result' = TRUE
    /\ in_published' = <<>>
    /\ UNCHANGED in_packet
    /\ UNCHANGED <<gateVars, now, chanVars, ctlVars, winVars, frVars, offVars>>

(***************************************************************************)
(* WindowFramebuffer objects.  An object outlives its registry entry while *)
(* a thread still holds a reference to it, so objects have identities of   *)
(* their own.  size is <<width, height>>.  pending is history: a region or *)
(* a resize was applied since the object's last snapshot() call.           *)
(***************************************************************************)
NoFb == [wid |-> 0, size |-> <<0, 0>>, dirty |-> FALSE, sequence |-> 0,
         last_sent |-> 0, pending |-> FALSE]

\* WindowFramebuffer.__init__
NewFb(wid, size) ==
    [wid |-> wid, size |-> size, dirty |-> FALSE, sequence |-> 0,
     last_sent |-> 0, pending |-> FALSE]

\* the window sizes the host reports: one within max_dimension, and a
\* sliver so wide that its scaled height rounds down to nothing
Sizes == {<<MaxDim, MaxDim>>, <<2 * MaxDim + 1, 1>>}

Max(a, b) == IF a > b THEN a ELSE b

\* WindowFramebuffer.snapshot lines 84-89 with the configured scale of 1.0:
\* an image larger than max_dim is resized to (int(w*ratio), int(h*ratio))
ScaledSize(size) ==
    LET w == size[1]
        h == size[2]
        m == Max(w, h)
    IN  IF m > MaxDim
        THEN <<(w * MaxDim) \div m, (h * MaxDim) \div m>>
        ELSE size

\* Image.resize and Image.save refuse an image with no pixels
EncodeRaises(size) == ScaledSize(size)[1] < 1 \/ ScaledSize(size)[2] < 1

\* WindowFramebuffer.snapshot: the call raises, after the locked section,
\* when the buffer is dirty and its image cannot be scaled and encoded
SnapshotRaises(fb) == fb.dirty /\ EncodeRaises(fb.size)

\* WindowFramebuffer.snapshot: None when the buffer is clean (lines 75-77),
\* the encoded bytes when it is dirty and the encoding goes through
SnapshotReturnsData(fb) == fb.dirty /\ ~EncodeRaises(fb.size)

\* WindowFramebuffer.snapshot lines 79-81: the object after the call
SnapshotEffect(fb) ==
    IF fb.dirty
    THEN [fb EXCEPT !.dirty = FALSE, !.sequence = fb.sequence + 1,
                    !.pending = FALSE]
    ELSE [fb EXCEPT !.pending = FALSE]

(***************************************************************************)
(* The control handler thread: _control_handler_loop reads one request,    *)
(* dispatches it and sends the response.                                   *)
(***************************************************************************)
NoRaw == [wire |-> "none", request_id |-> "", request_type |-> "",
          name |-> "", fields_ok |-> FALSE, wid |-> 0]
NoResp == [success |-> FALSE, request_id |-> "", data |-> "none",
           error |-> ""]

Response(ok, id, data, error) ==
    [success |-> ok, request_id |-> id, data |-> data, error |-> error]

\* ControlRequest.deserialise: msgpack.unpackb, then cls(**d).  Bytes that
\* are not msgpack, and a map with a key that is no field of the dataclass,
\* both raise.
Deserialisable(raw) == raw.wire = "ok"

\* actions _handle_action has a branch for, and those whose injection
\* routine catches every exception itself (_inject_text, _set_clipboard)
HandledActions == ActionType \ {"mouse_down", "mouse_up"}
SwallowingActions == {"type_text", "set_clipboard"}

\* ControlResponse.serialise: msgpack cannot pack every host-supplied object
\* cached in the window metadata
EncodeOutcomes(resp) == IF resp.data = "meta" THEN {TRUE, FALSE} ELSE {TRUE}

\* _control_handler_loop lines 281-286: a request arrives, is read and decoded
CtlRecv(raw) ==
    /\ ctl_pc = "poll"
    /\ ctl_raw' = raw
    /\ rep_awaiting' = TRUE
    /\ ctl_pc' = IF Deserialisable(raw) THEN "dispatch" ELSE "err_reply"
    /\ UNCHANGED <<ctl_can_act, ctl_old_mode, ctl_inject, ctl_resp, ctl_sent,
                   ctl_published>>
    /\ UNCHANGED <<gateVars, now, chanVars, inVars, winVars, frVars, offVars>>

\* _handle_request lines 308-312: a request type that is none of the three
HandleUnknownType ==
    /\ ctl_pc = "dispatch"
    /\ ctl_raw.request_type \notin {"action", "query", "mode"}
    /\ ctl_resp' = Response(FALSE, ctl_raw.request_id, "none",
                            "Unknown request type")
    /\ ctl_pc' = "send"
    /\ UNCHANGED <<ctl_raw, ctl_can_act, ctl_old_mode, ctl_inject, ctl_sent,
                   ctl_published, rep_awaiting>>
    /\ UNCHANGED <<gateVars, now, chanVars, inVars, winVars, frVars, offVars>>

\* _handle_action lines 321-324: the answer to a request refused
Denied(id) == Response(FALSE, id, "none", "AI cannot act in mode")

\* _handle_action line 320, ai_can_act line 211: the first read of the mode
HandleActionCheck ==
    /\ ctl_pc = "dispatch"
    /\ ctl_raw.request_type = "action"
    /\ IF ActsAnyTime(mode)
       THEN /\ ctl_can_act' = "yes"
            /\ ctl_pc' = "act"
       ELSE /\ ctl_pc' = "if_collaborative"
            /\ UNCHANGED ctl_can_act
    /\ UNCHANGED <<ctl_raw, ctl_old_mode, ctl_inject, ctl_resp, ctl_sent,
                   ctl_published, rep_awaiting>>
    /\ UNCHANGED <<gateVars, now, chanVars, inVars, winVars, frVars, offVars>>

\* an authority check whose refusal does not stop the action
AiCanActCollaborative_Unchecked ==
    /\ ctl_pc = "if_collaborative"
    /\ IF mode = COLLABORATIVE
       THEN /\ ctl_pc' = "elapsed"
            /\ UNCHANGED ctl_can_act
       ELSE /\ ctl_can_act' = "no"
            /\ ctl_pc' = "act"
    /\ UNCHANGED <<ctl_raw, ctl_old_mode, ctl_inject, ctl_resp, ctl_sent,
                   ctl_published, rep_awaiting>>
    /\ UNCHANGED <<gateVars, now, chanVars, inVars, winVars, frVars, offVars>>

\* ai_can_act line 213: the second read of the mode; line 216 and
\* _handle_action lines 321-324 when it is not collaborative
AiCanActCollaborative ==
    /\ ctl_pc = "if_collaborative"
    /\ IF mode = COLLABORATIVE
       THEN /\ ctl_pc' = "elapsed"
            /\ UNCHANGED <<ctl_can_act, ctl_resp>>
       ELSE /\ ctl_can_act' = "no"
            /\ ctl_resp' = Denied(ctl_raw.request_id)
            /\ ctl_pc' = "send"
    /\ UNCHANGED <<ctl_raw, ctl_old_mode, ctl_inject, ctl_sent, ctl_published,
                   rep_awaiting>>
    /\ UNCHANGED <<gateVars, now, chanVars, inVars, winVars, frVars, offVars>>

\* ai_can_act lines 214-215: the time since the last human input against
\* the priority window
AiCanActElapsed ==
    /\ ctl_pc = "elapsed"
    /\ IF PriorityElapsed
       THEN /\ ctl_can_act' = "yes"
            /\ ctl_pc' = "act"
            /\ UNCHANGED ctl_resp
       ELSE /\ ctl_can_act' = "no"
            /\ ctl_resp' = Denied(ctl_raw.request_id)
            /\ ctl_pc' = "send"
    /\ UNCHANGED <<ctl_raw, ctl_old_mode, ctl_inject, ctl_sent, ctl_published,
                   rep_awaiting>>
    /\ UNCHANGED <<gateVars, now, chanVars, inVars, winVars, frVars, offVars>>

\* _handle_action lines 326-363: dispatch on the action name.  A payload
\* that is no dict raises at line 326, a missing field raises KeyError
\* before the injection routine is entered; the injection routine itself
\* succeeds or raises (sink), unless it catches its own errors.
HandleActionRun ==
    /\ ctl_pc = "act"
    /\ \E sink_ok \in BOOLEAN :
         IF ctl_raw.name = "<nodict>"
         THEN /\ sink_ok
              /\ ctl_resp' = Response(FALSE, ctl_raw.request_id, "none",
                                      "AttributeError")
              /\ UNCHANGED ctl_inject
         ELSE IF ctl_raw.name \notin HandledActions
         THEN /\ sink_ok
              /\ ctl_resp' = Response(FALSE, ctl_raw.request_id, "none",
                                      "Unknown action")
              /\ UNCHANGED ctl_inject
         ELSE IF ~ctl_raw.fields_ok
         THEN /\ sink_ok
              /\ ctl_resp' = Response(FALSE, ctl_raw.request_id, "none",
                                      "KeyError")
              /\ UNCHANGED ctl_inject
         ELSE /\ ctl_inject' = IF sink_ok THEN "injected" ELSE "failed"
              /\ ctl_resp' =
                   IF sink_ok \/ ctl_raw.name \in SwallowingActions
                   THEN Response(TRUE, ctl_raw.request_id, "none", "")
                   ELSE Response(FALSE, ctl_raw.request_id, "none",
                                 "sink error")
    /\ ctl_pc' = "send"
    /\ UNCHANGED <<ctl_raw, ctl_can_act, ctl_old_mode, ctl_sent, ctl_published,
                   rep_awaiting>>
    /\ UNCHANGED <<gateVars, now, chanVars, inVars, winVars, frVars, offVars>>


\* FramebufferManager.get: the object registered for wid, 0 for None
GetFb(wid) == IF \E i \in 1..Len(buffers) : buffers[i] = wid THEN wid ELSE 0

\* _handle_query lines 367-426.  The screenshot query calls fb.snapshot():
\* it consumes the dirty flag, and answers a clean buffer with b"" (a bound
\* method has no __wrapped__).
HandleQuery ==
    /\ ctl_pc = "dispatch"
    /\ ctl_raw.request_type = "query"
    /\ LET id == ctl_raw.request_id
           q == ctl_raw.name
           shot_wid == IF ctl_raw.wid = 0 THEN focused_wid ELSE ctl_raw.wid
           o == GetFb(shot_wid)
       IN  /\ (q = "screenshot" /\ o # 0 /\ fbs[o].dirty)
                  => fbs[o].sequence < MaxSeq
           /\ ctl_resp' =
                CASE q = "<nodict>" ->
                       Response(FALSE, id, "none", "AttributeError")
                  [] q = "window_list" ->
                       Response(TRUE, id, IF window_meta = {}
                                          THEN "empty_list" ELSE "meta", "")
                  [] q = "window_info" ->
                       IF ctl_raw.wid \in window_meta
                       THEN Response(TRUE, id, "meta", "")
                       ELSE Response(FALSE, id, "none", "No window")
                  [] q = "focused_window" ->
                       Response(TRUE, id, IF focused_wid \in window_meta
                                          THEN "meta" ELSE "focus_only", "")
                  [] q = "screenshot" ->
                       IF o = 0
                       THEN Response(FALSE, id, "none", "No framebuffer")
                       ELSE IF SnapshotRaises(fbs[o])
                       THEN Response(FALSE, id, "none", "ValueError")
                       ELSE Response(TRUE, id,
                                     IF SnapshotReturnsData(fbs[o])
                                     THEN "bytes" ELSE "empty_bytes", "")
                  [] q = "current_mode" -> Response(TRUE, id, mode, "")
                  [] q = "clipboard" -> Response(TRUE, id, "text", "")
                  [] OTHER -> Response(FALSE, id, "none", "Unknown query")
           /\ fbs' = IF q = "screenshot" /\ o # 0
                     THEN [fbs EXCEPT ![o] = SnapshotEffect(fbs[o])]
                     ELSE fbs
    /\ ctl_pc' = "send"
    /\ UNCHANGED <<ctl_raw, ctl_can_act, ctl_old_mode, ctl_inject, ctl_sent,
                   ctl_published, rep_awaiting>>
    /\ UNCHANGED <<buffers, window_meta, focused_wid>>
    /\ UNCHANGED <<gateVars, now, chanVars, inVars, frVars, offVars>>

\* a request handler that takes any name for a mode
ValidModeName_Any(name) == TRUE

\* InputMode(new_mode_str): the names the enumeration accepts
ValidModeName(name) == name \in InputMode

\* _handle_mode_change lines 430-439: validate the name, read the old mode
HandleModeValidate ==
    /\ ctl_pc = "dispatch"
    /\ ctl_raw.request_type = "mode"
    /\ IF ctl_raw.name = "<nodict>"
       THEN /\ ctl_resp' = Response(FALSE, ctl_raw.request_id, "none",
                                    "AttributeError")
            /\ ctl_pc' = "send"
            /\ UNCHANGED ctl_old_mode
       ELSE IF ~ValidModeName(ctl_raw.name)
       THEN /\ ctl_resp' = Response(FALSE, ctl_raw.request_id, "none",
                                    "Invalid mode")
            /\ ctl_pc' = "send"
            /\ UNCHANGED ctl_old_mode
       ELSE /\ ctl_old_mode' = mode
            /\ ctl_pc' = "mode_write"
            /\ UNCHANGED ctl_resp
    /\ UNCHANGED <<ctl_raw, ctl_can_act, ctl_inject, ctl_sent, ctl_published,
                   rep_awaiting>>
    /\ UNCHANGED <<gateVars, now, chanVars, inVars, winVars, frVars, offVars>>

\* _handle_mode_change lines 440-443: write the mode, stamp the start of
\* autonomous mode
HandleModeWrite ==
    /\ ctl_pc = "mode_write"
    /\ mode' = ctl_raw.name
    /\ autonomous_start' = IF ctl_raw.name = AUTONOMOUS THEN now
                           ELSE autonomous_start
    /\ kill_active' = IF ctl_raw.name # OBSERVER THEN FALSE ELSE kill_active
    /\ collab_since' = -1
    /\ ctl_pc' = "mode_publish"
    /\ UNCHANGED <<human_last_input, human_priority_ms>>
    /\ UNCHANGED <<ctl_raw, ctl_can_act, ctl_old_mode, ctl_inject, ctl_resp,
                   ctl_sent, ctl_published, rep_awaiting>>
    /\ UNCHANGED <<now, chanVars, inVars, winVars, frVars, offVars>>

\* _handle_mode_change lines 445-453: publish the mode change, build the
\* response
HandleModePublish ==
    /\ ctl_pc = "mode_publish"
    /\ PublishEvent(ModeEvent(MODE_CHANGE, ctl_old_mode, ctl_raw.name))
    /\ ctl_published' = Published(ctl_published,
                        ModeEvent(MODE_CHANGE, ctl_old_mode, ctl_raw.name))
    /\ last_new_mode' = ctl_raw.name
    /\ ctl_resp' = Response(TRUE, ctl_raw.request_id, ctl_raw.name, "")
    /\ ctl_pc' = "send"
    /\ UNCHANGED <<ctl_raw, ctl_can_act, ctl_old_mode, ctl_inject, ctl_sent,
                   rep_awaiting>>
    /\ UNCHANGED <<gateVars, now, inVars, winVars, frVars, pureVars,
                   lifecycle, hooks, agent, fr_data>>

\* _control_handler_loop line 288: serialise the response and send it; a
\* response that cannot be packed raises into the handler of line 290
CtlSend ==
    /\ ctl_pc = "send"
    /\ \E enc_ok \in EncodeOutcomes(ctl_resp) :
         IF enc_ok
         THEN /\ rep_awaiting' = FALSE
              /\ ctl_sent' = ctl_sent + 1
              /\ ctl_pc' = "sent"
         ELSE /\ ctl_pc' = "err_reply"
              /\ UNCHANGED <<rep_awaiting, ctl_sent>>
    /\ UNCHANGED <<ctl_raw, ctl_can_act, ctl_old_mode, ctl_inject, ctl_resp,
                   ctl_published>>
    /\ UNCHANGED <<gateVars, now, chanVars, inVars, winVars, frVars, offVars>>

\* an error handler that only logs
CtlErrReply_Silent ==
    /\ ctl_pc = "err_reply"
    /\ ctl_pc' = "sent"
    /\ UNCHANGED <<ctl_raw, ctl_can_act, ctl_old_mode, ctl_inject, ctl_resp,
                   ctl_sent, ctl_published, rep_awaiting>>
    /\ UNCHANGED <<gateVars, now, chanVars, inVars, winVars, frVars, offVars>>

\* an error handler that lets the exception out of the loop
CtlErrReply_Raise ==
    /\ ctl_pc = "err_reply"
    /\ ctl_pc' = "exit"
    /\ UNCHANGED <<ctl_raw, ctl_can_act, ctl_old_mode, ctl_inject, ctl_resp,
                   ctl_sent, ctl_published, rep_awaiting>>
    /\ UNCHANGED <<gateVars, now, chanVars, inVars, winVars, frVars, offVars>>

\* _control_handler_loop lines 290-297: the error reply, built without a
\* request_id; a REP socket that owes no reply refuses the send
CtlErrReply ==
    /\ ctl_pc = "err_reply"
    /\ ctl_resp' = Response(FALSE, "", "none", "exception text")
    /\ IF rep_awaiting
       THEN /\ rep_awaiting' = FALSE
            /\ ctl_sent' = ctl_sent + 1
       ELSE UNCHANGED <<rep_awaiting, ctl_sent>>
    /\ ctl_pc' = "sent"
    /\ UNCHANGED <<ctl_raw, ctl_can_act, ctl_old_mode, ctl_inject, ctl_published>>
    /\ UNCHANGED <<gateVars, now, chanVars, inVars, winVars, frVars, offVars>>

\* _control_handler_loop line 279: back to the head of the loop
CtlLoop ==
    /\ ctl_pc = "sent"
    /\ ctl_pc' = "poll"
    /\ ctl_raw' = NoRaw
    /\ ctl_can_act' = "none"
    /\ ctl_old_mode' = NoMode
    /\ ctl_inject' = "none"
    /\ ctl_resp' = NoResp
    /\ ctl_sent' = 0
    /\ ctl_published' = <<>>
    /\ UNCHANGED rep_awaiting
    /\ UNCHANGED <<gateVars, now, chanVars, inVars, winVars, frVars, offVars>>


(***************************************************************************)
(* The host's window callbacks.  They run on the host thread, so only      *)
(* while it is not inside filter_input.                                    *)
(***************************************************************************)
SeqElems(q) == {q[i] : i \in 1..Len(q)}

\* the name an object goes by once it has left the registry
Stale(wid) == MaxWid + wid

\* the publisher's references after the object registered for wid left the
\* registry: the same object under its new name
Renamed(list, wid) ==
    [i \in 1..Len(list) |-> IF list[i] = wid THEN Stale(wid) ELSE list[i]]
RenamedCur(cur, wid) == IF cur = wid THEN Stale(wid) ELSE cur

\* the objects something still refers to: the registry, the publisher's
\* list of buffers and the buffer it is recording
Referenced(reg, list, cur) == SeqElems(reg) \cup SeqElems(list) \cup {cur}

\* an object nothing refers to is gone
Collect(f, reg, list, cur) ==
    [o \in FbIds |-> IF o \in Referenced(reg, list, cur) THEN f[o] ELSE NoFb]

\* the heap after the object registered for wid left the registry: the
\* publisher's references keep it alive under its new name
Unregistered(f, wid, list, cur) ==
    [o \in FbIds |-> IF o = Stale(wid) /\ wid \in SeqElems(list) \cup {cur}
                     THEN f[wid]
                     ELSE IF o = wid THEN NoFb
                     ELSE f[o]]

\* dict assignment: an existing key keeps its place, a new key goes last
DictSet(reg, wid) == IF wid \in SeqElems(reg) THEN reg ELSE Append(reg, wid)

\* a pop that takes the oldest key when wid is absent
DictPop_Oldest(reg, wid) ==
    IF wid \in SeqElems(reg) \/ reg = <<>>
    THEN SelectSeq(reg, LAMBDA e : e # wid)
    ELSE Tail(reg)

\* dict.pop(wid, None)
DictPop(reg, wid) == SelectSeq(reg, LAMBDA e : e # wid)

\* WindowFramebuffer.update_region for a region that decodes: dirty is set
UpdateRegionEffect(fb) == [fb EXCEPT !.dirty = TRUE, !.pending = TRUE]

\* WindowFramebuffer.resize: a new backing of the new size, dirty is set
ResizeEffect(fb, size) ==
    [fb EXCEPT !.size = size, !.dirty = TRUE, !.pending = TRUE]

\* on_new_window: create_window registers a fresh framebuffer under wid
\* (replacing one already there), caches the metadata, publishes the event
OnNewWindow(wid, size) ==
    /\ in_pc = "idle"
    /\ fr_list' = Renamed(fr_list, wid)
    /\ fr_cur' = RenamedCur(fr_cur, wid)
    /\ buffers' = DictSet(buffers, wid)
    /\ fbs' = Collect([Unregistered(fbs, wid, fr_list, fr_cur)
                         EXCEPT ![wid] = NewFb(wid, size)],
                      buffers', fr_list', fr_cur')
    /\ window_meta' = window_meta \cup {wid}
    /\ PublishEvent([event_type |-> "window_create", wid |-> wid])
    /\ UNCHANGED focused_wid
    /\ UNCHANGED <<offVars, emitted, delta_only, interval, fr_pc, fr_now, fr_results,
                   fr_wake, frame_depth>>
    /\ UNCHANGED <<gateVars, now, inVars, ctlVars>>

\* on_window_destroyed: destroy_window, drop the metadata, publish the event
OnWindowDestroyed(wid) ==
    /\ in_pc = "idle"
    /\ fr_list' = Renamed(fr_list, wid)
    /\ fr_cur' = RenamedCur(fr_cur, wid)
    /\ buffers' = DictPop(buffers, wid)
    /\ fbs' = Collect(Unregistered(fbs, wid, fr_list, fr_cur), buffers',
                      fr_list', fr_cur')
    /\ window_meta' = window_meta \ {wid}
    /\ PublishEvent([event_type |-> "window_destroy", wid |-> wid])
    /\ UNCHANGED focused_wid
    /\ UNCHANGED <<offVars, emitted, delta_only, interval, fr_pc, fr_now, fr_results,
                   fr_wake, frame_depth>>
    /\ UNCHANGED <<gateVars, now, inVars, ctlVars>>

\* on_draw: FramebufferManager.update_region, a no-op for an unknown wid;
\* WindowFramebuffer.update_region composites the region when its encoding
\* is supported and its payload decodes, and changes nothing otherwise
OnDraw(wid, region) ==
    /\ in_pc = "idle"
    /\ LET o == GetFb(wid)
       IN  fbs' = IF o # 0 /\ region = "ok"
                  THEN [fbs EXCEPT ![o] = UpdateRegionEffect(fbs[o])]
                  ELSE fbs
    /\ UNCHANGED <<buffers, window_meta, focused_wid>>
    /\ UNCHANGED <<gateVars, now, chanVars, inVars, ctlVars, frVars, offVars>>

\* the regions a draw packet may carry: one that decodes, one in an
\* encoding update_region does not know, one whose payload fails to decode
Regions == {"ok", "unsupported", "undecodable"}

\* on_window_resize: resize_window (a no-op for an unknown wid), publish
OnWindowResize(wid, size) ==
    /\ in_pc = "idle"
    /\ LET o == GetFb(wid)
       IN  fbs' = IF o # 0
                  THEN [fbs EXCEPT ![o] = ResizeEffect(fbs[o], size)]
                  ELSE fbs
    /\ PublishEvent([event_type |-> "window_resize", wid |-> wid])
    /\ UNCHANGED <<buffers, window_meta, focused_wid>>
    /\ UNCHANGED <<gateVars, now, inVars, ctlVars, frVars, offVars>>

\* on_focus_change
OnFocusChange(wid) ==
    /\ in_pc = "idle"
    /\ focused_wid' = wid
    /\ PublishEvent([event_type |-> "window_focus", wid |-> wid])
    /\ UNCHANGED <<buffers, fbs, window_meta>>
    /\ UNCHANGED <<gateVars, now, inVars, ctlVars, frVars, offVars>>

(***************************************************************************)
(* The frame publisher thread: each cycle collects the dirty snapshots     *)
(* (FramebufferManager.get_dirty_snapshots), publishes them and sleeps.    *)
(***************************************************************************)
\* _frame_publisher_loop line 234
MinInterval == IF delta_only THEN interval ELSE 0

\* a collection that skips nothing
RateLimited_Never(fb) == FALSE

\* get_dirty_snapshots line 151: the window was sent too recently
RateLimited(fb) == MinInterval > 0 /\ (fr_now - fb.last_sent) < MinInterval

\* get_dirty_snapshots lines 145-148: take the time and, under the lock, a
\* copy of the registry's values
FrCollect ==
    /\ fr_pc = "collect"
    /\ now >= fr_wake
    /\ fr_now' = now
    /\ fr_list' = buffers
    /\ fr_results' = <<>>
    /\ fr_data' = <<>>
    /\ fr_pc' = "visit"
    /\ UNCHANGED <<pureVars, lifecycle, hooks, agent, last_new_mode>>
    /\ UNCHANGED <<emitted, delta_only, interval, fr_cur, fr_wake, frame_depth>>
    /\ UNCHANGED <<gateVars, now, chanVars, inVars, ctlVars, winVars>>

\* get_dirty_snapshots lines 150-154: the next buffer is skipped when rate
\* limited, else snapshot() is called on it; a snapshot() that raises ends
\* the cycle in _frame_publisher_loop's handler (lines 265-268), which
\* logs the error and sleeps
FrVisit ==
    /\ fr_pc = "visit"
    /\ fr_list # <<>>
    /\ LET o == Head(fr_list)
       IN  IF RateLimited(fbs[o])
           THEN /\ fr_list' = Tail(fr_list)
                /\ fbs' = Collect(fbs, buffers, fr_list', fr_cur)
                /\ UNCHANGED <<fr_cur, fr_pc, fr_results, fr_wake, fr_data>>
           ELSE IF SnapshotRaises(fbs[o])
           THEN /\ fbs[o].sequence < MaxSeq
                /\ fr_list' = <<>>
                /\ fr_results' = <<>>
                /\ fr_data' = <<>>
                /\ fbs' = Collect([fbs EXCEPT ![o] = SnapshotEffect(fbs[o])],
                                  buffers, <<>>, fr_cur)
                /\ fr_wake' = now + interval
                /\ fr_pc' = "collect"
                /\ UNCHANGED fr_cur
           ELSE IF SnapshotReturnsData(fbs[o])
           THEN /\ fbs[o].sequence < MaxSeq
                /\ fr_list' = Tail(fr_list)
                /\ fr_cur' = o
                /\ fbs' = [fbs EXCEPT ![o] = SnapshotEffect(fbs[o])]
                /\ fr_data' = Append(fr_data, ScaledSize(fbs[o].size))
                /\ fr_pc' = "record"
                /\ UNCHANGED <<fr_results, fr_wake>>
           ELSE /\ fr_list' = Tail(fr_list)
                /\ fbs' = Collect([fbs EXCEPT ![o] = SnapshotEffect(fbs[o])],
                                  buffers, fr_list', fr_cur)
                /\ UNCHANGED <<fr_cur, fr_pc, fr_results, fr_wake, fr_data>>
    /\ UNCHANGED <<pureVars, lifecycle, hooks, agent, last_new_mode>>
    /\ UNCHANGED <<emitted, delta_only, interval, fr_now, frame_depth>>
    /\ UNCHANGED <<buffers, window_meta, focused_wid>>
    /\ UNCHANGED <<gateVars, now, chanVars, inVars, ctlVars>>

\* get_dirty_snapshots lines 155-156: note the send time, append the
\* (wid, data, sequence) entry with the sequence the buffer has now
FrRecord ==
    /\ fr_pc = "record"
    /\ fr_results' = Append(fr_results, [wid |-> fbs[fr_cur].wid,
                                         sequence |-> fbs[fr_cur].sequence])
    /\ fr_cur' = 0
    /\ fbs' = Collect([fbs EXCEPT ![fr_cur].last_sent = fr_now], buffers,
                      fr_list, 0)
    /\ emitted' = [emitted EXCEPT ![fbs[fr_cur].wid] = fbs[fr_cur].sequence]
    /\ fr_pc' = "visit"
    /\ UNCHANGED <<offVars, delta_only, interval, fr_now, fr_list, fr_wake,
                   frame_depth>>
    /\ UNCHANGED <<buffers, window_meta, focused_wid>>
    /\ UNCHANGED <<gateVars, now, chanVars, inVars, ctlVars>>

\* get_dirty_snapshots line 158: every buffer was visited
FrCollected ==
    /\ fr_pc = "visit"
    /\ fr_list = <<>>
    /\ fr_pc' = "publish"
    /\ UNCHANGED <<offVars, emitted, delta_only, interval, fr_now, fr_list, fr_cur,
                   fr_results, fr_wake, frame_depth>>
    /\ UNCHANGED <<gateVars, now, chanVars, inVars, ctlVars, winVars>>

\* _frame_publisher_loop lines 237-252 and 263-264: send the next frame; a
\* full channel either drops the message or raises zmq.Again, which ends
\* the for loop
FrPublish ==
    /\ fr_pc = "publish"
    /\ fr_results # <<>>
    /\ IF frame_depth < FrameHwm
       THEN /\ frame_depth' = frame_depth + 1
            /\ fr_results' = Tail(fr_results)
            /\ fr_data' = Tail(fr_data)
       ELSE /\ UNCHANGED frame_depth
            /\ \E again \in BOOLEAN :
                 /\ fr_results' = IF again THEN <<>> ELSE Tail(fr_results)
                 /\ fr_data' = IF again THEN <<>> ELSE Tail(fr_data)
    /\ UNCHANGED <<pureVars, lifecycle, hooks, agent, last_new_mode>>
    /\ UNCHANGED <<emitted, delta_only, interval, fr_pc, fr_now, fr_list,
                   fr_cur, fr_wake>>
    /\ UNCHANGED <<gateVars, now, chanVars, inVars, ctlVars, winVars>>

\* _frame_publisher_loop line 268: time.sleep(interval)
FrSleep ==
    /\ fr_pc = "publish"
    /\ fr_results = <<>>
    /\ fr_wake' = now + interval
    /\ fr_pc' = "collect"
    /\ UNCHANGED <<offVars, emitted, delta_only, interval, fr_now, fr_list, fr_cur,
                   fr_results, frame_depth>>
    /\ UNCHANGED <<gateVars, now, chanVars, inVars, ctlVars, winVars>>

\* get_dirty_snapshots line 145 reads time.time(), the wall clock, which the
\* system may set back; time.sleep (line 268) lasts as long as it would have
ClockStepBack ==
    /\ now > StartTime
    /\ now' = now - 1
    /\ fr_wake' = IF fr_wake > 0 THEN fr_wake - 1 ELSE 0
    /\ UNCHANGED <<offVars, emitted, delta_only, interval, fr_pc, fr_now, fr_list,
                   fr_cur, fr_results, frame_depth>>
    /\ UNCHANGED <<gateVars, chanVars, inVars, ctlVars, winVars>>

\* a subscriber takes one frame off the channel
FrameSubscriber ==
    /\ frame_depth > 0
    /\ frame_depth' = frame_depth - 1
    /\ UNCHANGED <<offVars, emitted, delta_only, interval, fr_pc, fr_now, fr_list,
                   fr_cur, fr_results, fr_wake>>
    /\ UNCHANGED <<gateVars, now, chanVars, inVars, ctlVars, winVars>>

(***************************************************************************)
(* The state after AIControlPlugin.__init__, for the configurations given: *)
(* default modes, human priority windows, delta_only settings and publish  *)
(* periods.                                                                *)
(***************************************************************************)
(***************************************************************************)
(* protocol.py: the four message shapes and their msgpack encoding.  A     *)
(* Python value is described by its type, outermost first: <<"int">>,      *)
(* <<"list", "str">>, <<"dict", "str", "tuple", "int">> (a dict with str   *)
(* keys whose values are tuples of int).  msgpack keeps the content of a   *)
(* value; what it may change is the type.                                  *)
(***************************************************************************)
Atoms == {<<"none">>, <<"bool">>, <<"int">>, <<"float">>, <<"str">>,
          <<"bytes">>}
Lists == {<<"list">> \o a : a \in Atoms}
Tuples == {<<"tuple">> \o a : a \in Atoms}
\* dicts with keys of one kind and values of one kind
Dicts == {<<"dict", k>> \o v : k \in {"str", "int"},
                               v \in Atoms \cup Lists \cup Tuples}
            \cup {<<"dict">>}

\* msgpack.packb(..., use_bin_type=True): list and tuple both become an
\* array, a dict becomes a map, str and bytes keep apart as str and bin
PackType(t) ==
    CASE t \in {"list", "tuple"} -> "array"
      [] t = "dict" -> "map"
      [] t = "bytes" -> "bin"
      [] OTHER -> t
Packb(v) == [i \in DOMAIN v |-> PackType(v[i])]

\* msgpack.unpackb(..., raw=False): an array becomes a list, a map a dict,
\* bin bytes; a map key that is neither str nor bytes raises ValueError
\* (strict_map_key)
UnpackType(t) ==
    CASE t = "array" -> "list"
      [] t = "map" -> "dict"
      [] t = "bin" -> "bytes"
      [] OTHER -> t
UnpackRaises(w) ==
    \E i \in DOMAIN w : /\ w[i] = "map"
                        /\ i < Len(w)
                        /\ w[i + 1] \notin {"str", "bytes"}
Unpackb(w) == [i \in DOMAIN w |-> UnpackType(w[i])]

\* the dataclasses, as functions from field name to value
FrameMessage ==
    {[wid |-> <<"int">>, x |-> <<"int">>, y |-> <<"int">>,
      width |-> <<"int">>, height |-> <<"int">>, format |-> <<"str">>,
      data |-> <<"bytes">>, timestamp |-> <<"float">>,
      window_title |-> <<"str">>, window_class |-> <<"str">>,
      is_focused |-> <<"bool">>, sequence |-> <<"int">>]}
EventMessage ==
    {[event_type |-> <<"str">>, wid |-> <<"int">>, timestamp |-> <<"float">>,
      data |-> d] : d \in Dicts}
ControlRequest ==
    {[request_type |-> <<"str">>, payload |-> d, request_id |-> <<"str">>] :
        d \in Dicts}
ControlResponse ==
    {[success |-> <<"bool">>, request_id |-> <<"str">>, data |-> d,
      error |-> <<"str">>] : d \in Atoms \cup Lists \cup Tuples \cup Dicts}
Messages == FrameMessage \cup EventMessage \cup ControlRequest
                \cup ControlResponse

\* no message, and what stands for the decoded message when decoding raised
NoMessage == [none |-> <<>>]
Raised == [raised |-> <<"ValueError">>]
CodecIdle == [pc |-> "idle", m |-> NoMessage, wire |-> NoMessage,
              out |-> NoMessage]

\* serialise: msgpack.packb(asdict(self)), field by field
SerialiseMessage(m) == [f \in DOMAIN m |-> Packb(m[f])]

\* the dataclass a message is an instance of, and the parameters of its
\* generated __init__
ClassOf(m) ==
    CHOOSE cls \in {FrameMessage, EventMessage, ControlRequest,
                    ControlResponse} : m \in cls
FieldsOf(cls) == DOMAIN (CHOOSE m \in cls : TRUE)

\* cls(**d) with a key that is no parameter of __init__
RaisedTypeError == [raised |-> <<"TypeError">>]

\* deserialise: cls(**msgpack.unpackb(data))
DeserialiseMessage(cls, w) ==
    IF \E f \in DOMAIN w : UnpackRaises(w[f])
    THEN Raised
    ELSE IF DOMAIN w # FieldsOf(cls)
    THEN RaisedTypeError
    ELSE [f \in DOMAIN w |-> Unpackb(w[f])]

Serialise ==
    /\ codec.pc = "built"
    /\ codec' = [codec EXCEPT !.pc = "packed",
                              !.wire = SerialiseMessage(codec.m)]
    /\ UNCHANGED <<gateVars, now, chanVars, inVars, ctlVars, winVars, frVars,
                   wfb, lifecycle, hooks, agent,
                   last_new_mode, fr_data>>

\* the encoding of a sender whose version of the message has one field more
WithUnknownField(w) ==
    [f \in DOMAIN w \cup {"added_field"} |->
        IF f = "added_field" THEN <<"int">> ELSE w[f]]

SendNewerVersion ==
    /\ codec.pc = "packed"
    /\ "added_field" \notin DOMAIN codec.wire
    /\ codec' = [codec EXCEPT !.wire = WithUnknownField(codec.wire)]
    /\ UNCHANGED <<gateVars, now, chanVars, inVars, ctlVars, winVars, frVars,
                   wfb, lifecycle, hooks, agent,
                   last_new_mode, fr_data>>

Deserialise ==
    /\ codec.pc = "packed"
    /\ codec' = [codec EXCEPT !.pc = "done",
                              !.out = DeserialiseMessage(ClassOf(codec.m),
                                                         codec.wire)]
    /\ UNCHANGED <<gateVars, now, chanVars, inVars, ctlVars, winVars, frVars,
                   wfb, lifecycle, hooks, agent,
                   last_new_mode, fr_data>>

(***************************************************************************)
(* framebuffer.py: one WindowFramebuffer in detail.  Its image is a        *)
(* function from pixel positions to colours; snapshot() computes the size  *)
(* of the encoded image in floating point.                                 *)
(***************************************************************************)
\* the longest side a window has, and the bits of a float's mantissa
\* (a double has 53: the rounding is the same with fewer)
LongDim == 13
MantissaBits == 6
MaxExponent == MantissaBits + 4

RECURSIVE Pow2(_)
Pow2(n) == IF n = 0 THEN 1 ELSE 2 * Pow2(n - 1)

\* num / den rounded to the nearest integer, ties to even
RoundHalfEven(num, den) ==
    LET q == num \div den
        r == num % den
    IN  IF 2 * r > den \/ (2 * r = den /\ q % 2 = 1) THEN q + 1 ELSE q

\* the float nearest to num / den, as a fraction <<n, d>>: the quotient is
\* scaled by the power of two that leaves MantissaBits bits before the
\* point, rounded, and scaled back
Fl(num, den) ==
    IF num = 0 THEN <<0, 1>>
    ELSE LET InRange(e) ==
                 LET n2 == IF e < 0 THEN num * Pow2(0 - e) ELSE num
                     d2 == IF e > 0 THEN den * Pow2(e) ELSE den
                 IN  /\ Pow2(MantissaBits - 1) * d2 <= n2
                     /\ n2 < Pow2(MantissaBits) * d2
             e == CHOOSE x \in (0 - MaxExponent)..MaxExponent : InRange(x)
         IN  IF e < 0
             THEN <<RoundHalfEven(num * Pow2(0 - e), den), Pow2(0 - e)>>
             ELSE <<RoundHalfEven(num, den * Pow2(e)) * Pow2(e), 1>>

\* i * f for an int i and a float f; int(f) for a float that is not negative
FlMul(i, f) == Fl(i * f[1], f[2])
IntOf(f) == f[1] \div f[2]

\* WindowFramebuffer.snapshot lines 84-89: the size the image is encoded in
SnapshotSize(size, scale, max_dim) ==
    LET w == size[1]
        h == size[2]
        m == Max(w, h)
    IN  IF scale[1] < scale[2]
        THEN <<IntOf(FlMul(w, scale)), IntOf(FlMul(h, scale))>>
        ELSE IF m > max_dim
        THEN LET ratio == Fl(max_dim, m)
             IN  <<IntOf(FlMul(w, ratio)), IntOf(FlMul(h, ratio))>>
        ELSE size

Black == 0
Colour == 1

\* Image.new("RGB", size, (0, 0, 0))
Pixels(size) == (0..(size[1] - 1)) \X (0..(size[2] - 1))
NewImage(size) == [size |-> size, px |-> [p \in Pixels(size) |-> Black]]

\* the positions a region of size rsize covers when put at (x, y)
Covered(x, y, rsize) == (x..(x + rsize[1] - 1)) \X (y..(y + rsize[2] - 1))

\* Image.paste(region, (x, y)) for a region of one colour, clipped
Paste(img, x, y, rsize, colour) ==
    [img EXCEPT !.px = [p \in Pixels(img.size) |->
                          IF p \in Covered(x, y, rsize)
                          THEN colour ELSE img.px[p]]]

\* a resize that starts from an empty backing
PasteImage_Discard(new, old) == new

\* Image.paste(old, (0, 0)) into the new backing, clipped
PasteImage(new, old) ==
    [new EXCEPT !.px = [p \in Pixels(new.size) |->
                          IF p \in Pixels(old.size)
                          THEN old.px[p] ELSE new.px[p]]]

\* snapshot() has not been called; the results of a call
NoShot == [kind |-> "no_call", size |-> <<0, 0>>, of |-> <<0, 0>>,
           scale |-> <<1, 1>>, max_dim |-> 0]
Shot(kind, size, of, scale, max_dim) ==
    [kind |-> kind, size |-> size, of |-> of, scale |-> scale,
     max_dim |-> max_dim]

\* WindowFramebuffer.__init__; history: applied is the size of the creation
\* or of the last resize, log tells whether an update was rejected and
\* whether one was composited after that
NewWindowFramebuffer(size) ==
    [width |-> size[1], height |-> size[2], image |-> NewImage(size),
     dirty |-> FALSE, sequence |-> 0, shot |-> NoShot,
     applied |-> size, resized |-> FALSE, log |-> "none"]
NoBuffer == NewWindowFramebuffer(<<0, 0>>)

\* the encodings update_region decodes (lines 42 and 47)
SupportedCodings == {"rgb24", "rgb32", "rgbx", "png", "jpeg", "webp",
                     "png/L", "png/P"}

\* an update that marks the buffer although nothing was composited
RejectedUpdate_Dirty(fb) == [fb EXCEPT !.log = "rejected", !.dirty = TRUE]

\* update_region lines 50-52 and 55-56: the encoding is not supported, or
\* decoding raised and the exception was logged
RejectedUpdate(fb) == [fb EXCEPT !.log = "rejected"]

\* WindowFramebuffer.update_region
WfbUpdateRegion(x, y, rsize, coding, decodes) ==
    /\ wfb # NoBuffer
    /\ wfb' = IF coding \notin SupportedCodings \/ ~decodes
              THEN RejectedUpdate(wfb)
              ELSE [wfb EXCEPT !.image = Paste(wfb.image, x, y, rsize, Colour),
                               !.dirty = TRUE,
                               !.log = IF wfb.log = "none" THEN "none"
                                       ELSE "composited_after"]
    /\ UNCHANGED <<gateVars, now, chanVars, inVars, ctlVars, winVars, frVars,
                   codec, lifecycle, hooks, agent,
                   last_new_mode, fr_data>>

\* WindowFramebuffer.resize
WfbResize(size) ==
    /\ wfb # NoBuffer
    /\ wfb' = [wfb EXCEPT !.image = PasteImage(NewImage(size), wfb.image),
                          !.width = size[1],
                          !.height = size[2],
                          !.dirty = TRUE,
                          !.applied = size,
                          !.resized = TRUE]
    /\ UNCHANGED <<gateVars, now, chanVars, inVars, ctlVars, winVars, frVars,
                   codec, lifecycle, hooks, agent,
                   last_new_mode, fr_data>>

\* WindowFramebuffer.snapshot: None for a clean buffer; for a dirty one the
\* flag is cleared, the sequence incremented, and the copy is scaled and
\* encoded, which raises for an image without pixels
WfbSnapshot(scale, max_dim) ==
    /\ wfb # NoBuffer
    /\ wfb.dirty => wfb.sequence < MaxSeq
    /\ wfb' =
         IF ~wfb.dirty
         THEN [wfb EXCEPT !.shot = Shot("none", <<0, 0>>, wfb.image.size,
                                        scale, max_dim)]
         ELSE LET out == SnapshotSize(wfb.image.size, scale, max_dim)
              IN  [wfb EXCEPT !.dirty = FALSE,
                              !.sequence = wfb.sequence + 1,
                              !.shot = Shot(IF out[1] < 1 \/ out[2] < 1
                                            THEN "raised" ELSE "image",
                                            out, wfb.image.size, scale,
                                            max_dim)]
    /\ UNCHANGED <<gateVars, now, chanVars, inVars, ctlVars, winVars, frVars,
                   codec, lifecycle, hooks, agent,
                   last_new_mode, fr_data>>

(***************************************************************************)
(* update_region against snapshot on one WindowFramebuffer, pixel by       *)
(* pixel: the host thread pastes a region while the publisher thread       *)
(* copies the image, both under self._lock.  Update k paints its region in *)
(* colour k, so a copy tells which updates it holds.                       *)
(***************************************************************************)
\* paste and copy go through the pixels row by row
PixelIndex(p, size) == p[2] * size[1] + p[1]
FirstPixel(S, size) ==
    CHOOSE p \in S : \A q \in S : PixelIndex(p, size) <= PixelIndex(q, size)

NotCopied == -1
IdleUpdate == [pc |-> "idle", todo |-> {}, colour |-> 0]
IdleSnapshot == [pc |-> "idle", todo |-> {}, img |-> <<>>]

\* a buffer with its two callers; history: drawn[k] is the region of
\* update k, done the number of updates that have returned, copied the
\* copy of the last snapshot, waited whether a caller found the lock held
NewSharedFramebuffer(size) ==
    [width |-> size[1], height |-> size[2], image |-> NewImage(size),
     dirty |-> FALSE, sequence |-> 0, shot |-> NoShot,
     applied |-> size, resized |-> FALSE, log |-> "none",
     lock |-> "free", upd |-> IdleUpdate, snp |-> IdleSnapshot,
     drawn |-> <<>>, done |-> 0, copied |-> NewImage(size).px,
     waited |-> FALSE]

\* a lock that any caller gets at once
LockFree_Always(fb) == TRUE

\* threading.Lock: with self._lock is entered when no thread holds it
LockFree(fb) == fb.lock = "free"

\* update_region is called with a region that decodes (line 33)
UpdateCall(x, y, rsize) ==
    /\ wfb # NoBuffer
    /\ wfb.upd.pc = "idle"
    /\ Len(wfb.drawn) < MaxSeq
    /\ wfb' = [wfb EXCEPT
                 !.upd = [pc |-> "lock",
                          todo |-> Covered(x, y, rsize)
                                       \cap Pixels(wfb.image.size),
                          colour |-> Len(wfb.drawn) + 1],
                 !.drawn = Append(@, Covered(x, y, rsize)
                                         \cap Pixels(wfb.image.size)),
                 !.waited = @ \/ wfb.lock # "free"]
    /\ UNCHANGED <<gateVars, now, chanVars, inVars, ctlVars, winVars, frVars,
                   codec, lifecycle, hooks, agent,
                   last_new_mode, fr_data>>

\* line 39: with self._lock
UpdateLock ==
    /\ wfb.upd.pc = "lock"
    /\ LockFree(wfb)
    /\ wfb' = [wfb EXCEPT !.lock = "update_region", !.upd.pc = "paste"]
    /\ UNCHANGED <<gateVars, now, chanVars, inVars, ctlVars, winVars, frVars,
                   codec, lifecycle, hooks, agent,
                   last_new_mode, fr_data>>

\* line 53: self.image.paste(region, (x, y)), the next pixel
UpdatePaste ==
    /\ wfb.upd.pc = "paste"
    /\ IF wfb.upd.todo = {}
       THEN wfb' = [wfb EXCEPT !.upd.pc = "dirty"]
       ELSE LET p == FirstPixel(wfb.upd.todo, wfb.image.size)
            IN  wfb' = [wfb EXCEPT !.image.px[p] = wfb.upd.colour,
                                   !.upd.todo = @ \ {p}]
    /\ UNCHANGED <<gateVars, now, chanVars, inVars, ctlVars, winVars, frVars,
                   codec, lifecycle, hooks, agent,
                   last_new_mode, fr_data>>

\* line 54: self.dirty = True, and the lock is released on return
UpdateDirty ==
    /\ wfb.upd.pc = "dirty"
    /\ wfb' = [wfb EXCEPT !.dirty = TRUE, !.lock = "free",
                          !.upd = IdleUpdate, !.done = @ + 1]
    /\ UNCHANGED <<gateVars, now, chanVars, inVars, ctlVars, winVars, frVars,
                   codec, lifecycle, hooks, agent,
                   last_new_mode, fr_data>>

\* snapshot is called (line 69)
SnapshotCall ==
    /\ wfb # NoBuffer
    /\ wfb.snp.pc = "idle"
    /\ wfb.sequence < MaxSeq
    /\ wfb' = [wfb EXCEPT !.snp.pc = "lock",
                          !.waited = @ \/ wfb.lock # "free"]
    /\ UNCHANGED <<gateVars, now, chanVars, inVars, ctlVars, winVars, frVars,
                   codec, lifecycle, hooks, agent,
                   last_new_mode, fr_data>>

\* line 75: with self._lock
SnapshotLock ==
    /\ wfb.snp.pc = "lock"
    /\ LockFree(wfb)
    /\ wfb' = [wfb EXCEPT !.lock = "snapshot", !.snp.pc = "test"]
    /\ UNCHANGED <<gateVars, now, chanVars, inVars, ctlVars, winVars, frVars,
                   codec, lifecycle, hooks, agent,
                   last_new_mode, fr_data>>

\* lines 76-77: a clean buffer returns None
SnapshotTest ==
    /\ wfb.snp.pc = "test"
    /\ wfb' = IF wfb.dirty
              THEN [wfb EXCEPT !.snp = [pc |-> "copy",
                                        todo |-> Pixels(wfb.image.size),
                                        img |-> [p \in Pixels(wfb.image.size)
                                                   |-> NotCopied]]]
              ELSE [wfb EXCEPT !.snp = IdleSnapshot, !.lock = "free"]
    /\ UNCHANGED <<gateVars, now, chanVars, inVars, ctlVars, winVars, frVars,
                   codec, lifecycle, hooks, agent,
                   last_new_mode, fr_data>>

\* line 79: img = self.image.copy(), the next pixel
SnapshotCopy ==
    /\ wfb.snp.pc = "copy"
    /\ IF wfb.snp.todo = {}
       THEN wfb' = [wfb EXCEPT !.snp.pc = "clear"]
       ELSE LET p == FirstPixel(wfb.snp.todo, wfb.image.size)
            IN  wfb' = [wfb EXCEPT !.snp.img[p] = wfb.image.px[p],
                                   !.snp.todo = @ \ {p}]
    /\ UNCHANGED <<gateVars, now, chanVars, inVars, ctlVars, winVars, frVars,
                   codec, lifecycle, hooks, agent,
                   last_new_mode, fr_data>>

\* lines 80-81: self.dirty = False, self.sequence += 1; the lock is
\* released and the copy goes on to scaling and encoding
SnapshotClear ==
    /\ wfb.snp.pc = "clear"
    /\ wfb' = [wfb EXCEPT !.dirty = FALSE, !.sequence = @ + 1,
                          !.copied = wfb.snp.img, !.lock = "free",
                          !.snp = IdleSnapshot]
    /\ UNCHANGED <<gateVars, now, chanVars, inVars, ctlVars, winVars, frVars,
                   codec, lifecycle, hooks, agent,
                   last_new_mode, fr_data>>

(***************************************************************************)
(* install_hooks: the server's _process_draw is replaced by hooked_draw,   *)
(* which hands the packet to plugin.on_draw and then to the original       *)
(* handler.                                                                *)
(***************************************************************************)
\* the parameters of on_draw after self (lines 99-100), none with a
\* default, and what hooked_draw passes (line 651)
OnDrawParameters == <<"wid", "x", "y", "width", "height", "coding", "data",
                      "client_options">>
HookedDrawArguments == <<"wid", "x", "y", "w", "h", "coding", "data">>

\* a call that binds whatever it is given
CallBinds_Lenient(args, params) == TRUE

\* a positional call of a function without defaults and without *args
\* binds when it gives as many arguments as there are parameters, and
\* raises TypeError otherwise
CallBinds(args, params) == Len(args) = Len(params)

\* history: packets counts the draw packets processed, forwarded those
\* handed to the original handler, last is the packet processed last
NoDraw == [wid |-> 0, region |-> "none"]
Installed == [packets |-> 0, forwarded |-> 0, last |-> NoDraw]

\* hooked_draw (lines 645-654): on_draw is called inside try, an exception
\* is logged at debug level, and the original handler is called last
HookedDraw(wid, region) ==
    /\ in_pc = "idle"
    /\ hooks.packets < MaxSeq
    /\ LET o == GetFb(wid)
       IN  fbs' = IF /\ CallBinds(HookedDrawArguments, OnDrawParameters)
                     /\ o # 0
                     /\ region = "ok"
                  THEN [fbs EXCEPT ![o] = UpdateRegionEffect(fbs[o])]
                  ELSE fbs
    /\ hooks' = [packets |-> hooks.packets + 1,
                 forwarded |-> hooks.forwarded + 1,
                 last |-> [wid |-> wid, region |-> region]]
    /\ UNCHANGED <<buffers, window_meta, focused_wid>>
    /\ UNCHANGED <<gateVars, now, chanVars, inVars, ctlVars, frVars, pureVars,
                   lifecycle, agent, last_new_mode, fr_data>>

(***************************************************************************)
(* The client, agent.py: the frame receiver thread caches the last frame   *)
(* of each window, and wait_for_frame polls the cache.  Frames are told    *)
(* apart by the order in which they arrive: the n-th frame received is n.  *)
(***************************************************************************)
NoFrame == 0

\* AIAgent after connect(): the cache is empty, no call is under way;
\* arrivals counts the frames received, began is its value when the call
\* of wait_for_frame began
Connected == [latest |-> [wid \in Wids |-> NoFrame], arrivals |-> 0,
              pc |-> "idle", wid |-> 0, began |-> 0, deadline |-> 0,
              result |-> NoFrame]

\* _frame_receiver_loop lines 139-144: a frame of window wid is received
\* and replaces the one cached for that window
AgentReceive(wid) ==
    /\ agent.arrivals < MaxSeq
    /\ agent' = [agent EXCEPT !.arrivals = @ + 1,
                              !.latest[wid] = agent.arrivals + 1]
    /\ UNCHANGED <<gateVars, now, chanVars, inVars, ctlVars, winVars, frVars,
                   pureVars, lifecycle, hooks, last_new_mode, fr_data>>

\* get_frame lines 315-326: the cached frame of the window, or without a
\* window id the most recent of all cached frames, or None
GetFrame(wid) ==
    IF wid # 0 THEN agent.latest[wid]
    ELSE CHOOSE m \in {agent.latest[w] : w \in Wids} :
           \A w \in Wids : agent.latest[w] <= m

\* wait_for_frame line 340: the deadline is set, one tick from now
WaitForFrameCall(wid) ==
    /\ agent.pc = "idle"
    /\ now < MaxTime
    /\ agent' = [agent EXCEPT !.pc = "while", !.wid = wid,
                              !.began = agent.arrivals,
                              !.deadline = now + 1,
                              !.result = NoFrame]
    /\ UNCHANGED <<gateVars, now, chanVars, inVars, ctlVars, winVars, frVars,
                   pureVars, lifecycle, hooks, last_new_mode, fr_data>>

\* lines 341-346: before the deadline get_frame is asked, and what it has
\* is returned; with nothing there the call sleeps; at the deadline it
\* returns None
WaitForFrameLoop ==
    /\ agent.pc = "while"
    /\ agent' = IF now >= agent.deadline
                THEN [agent EXCEPT !.pc = "returned", !.result = NoFrame]
                ELSE IF GetFrame(agent.wid) # NoFrame
                THEN [agent EXCEPT !.pc = "returned",
                                   !.result = GetFrame(agent.wid)]
                ELSE [agent EXCEPT !.pc = "sleep"]
    /\ UNCHANGED <<gateVars, now, chanVars, inVars, ctlVars, winVars, frVars,
                   pureVars, lifecycle, hooks, last_new_mode, fr_data>>

\* line 345: time.sleep(0.1) returns
WaitForFrameSleep ==
    /\ agent.pc = "sleep"
    /\ agent' = [agent EXCEPT !.pc = "while"]
    /\ UNCHANGED <<gateVars, now, chanVars, inVars, ctlVars, winVars, frVars,
                   pureVars, lifecycle, hooks, last_new_mode, fr_data>>

\* the caller has its result
WaitForFrameReturn ==
    /\ agent.pc = "returned"
    /\ agent' = [agent EXCEPT !.pc = "idle"]
    /\ UNCHANGED <<gateVars, now, chanVars, inVars, ctlVars, winVars, frVars,
                   pureVars, lifecycle, hooks, last_new_mode, fr_data>>

(***************************************************************************)
(* Lifecycle: shutdown() on the host thread against the two worker loops.  *)
(* Of a loop only what shutdown() depends on is kept: where it tests       *)
(* self._running, where it uses a socket, and where it may stay longer     *)
(* than the two seconds join() waits.                                      *)
(***************************************************************************)
Sockets == {"frame", "event", "control"}

\* __init__ lines 61-75: running, the sockets open, both threads started
Started == [running |-> TRUE, pc |-> "up", closed |-> {},
            frame |-> "while", control |-> "while"]

\* _frame_publisher_loop line 268 sleeps 1 / max(fps, 0.1) seconds, up to
\* ten; join(timeout=2) returns before the sleep does
FrameOutlastsJoin == lifecycle.frame = "sleep"

\* _handle_request may wait for xdotool, with a timeout of 5 or 10 seconds
\* for each call (lines 472-535); join(timeout=2) returns before it does
ControlOutlastsJoin == lifecycle.control = "handle"

\* _frame_publisher_loop line 227: while self._running
LifeFrameWhile ==
    /\ lifecycle.frame = "while"
    /\ lifecycle' = [lifecycle EXCEPT !.frame = IF lifecycle.running
                                                 THEN "snapshots"
                                                 ELSE "exited"]

\* lines 229-235: get_dirty_snapshots returns frames to send, or none
LifeFrameSnapshots ==
    /\ lifecycle.frame = "snapshots"
    /\ \E next \in {"send", "sleep"} :
         lifecycle' = [lifecycle EXCEPT !.frame = next]

\* lines 237-266: the frames go to self._frame_pub; on a closed socket
\* send raises and the handler of line 265 logs it
LifeFrameSend ==
    /\ lifecycle.frame = "send"
    /\ lifecycle' = [lifecycle EXCEPT !.frame = "sleep"]

\* line 268: time.sleep(interval) returns
LifeFrameSleep ==
    /\ lifecycle.frame = "sleep"
    /\ lifecycle' = [lifecycle EXCEPT !.frame = "while"]

\* _control_handler_loop line 279: while self._running
LifeControlWhile ==
    /\ lifecycle.control = "while"
    /\ lifecycle' = [lifecycle EXCEPT !.control = IF lifecycle.running
                                                   THEN "poll"
                                                   ELSE "exited"]

\* lines 281-283: poll self._control_rep for half a second; nothing there
\* goes back to the test, a request goes on to recv, and a closed socket
\* raises into the handler of line 290
LifeControlPoll ==
    /\ lifecycle.control = "poll"
    /\ IF "control" \in lifecycle.closed
       THEN lifecycle' = [lifecycle EXCEPT !.control = "err_send"]
       ELSE \E next \in {"while", "recv"} :
              lifecycle' = [lifecycle EXCEPT !.control = next]

\* lines 285-286: recv and deserialise
LifeControlRecv ==
    /\ lifecycle.control = "recv"
    /\ IF "control" \in lifecycle.closed
       THEN lifecycle' = [lifecycle EXCEPT !.control = "err_send"]
       ELSE \E next \in {"handle", "err_send"} :
              lifecycle' = [lifecycle EXCEPT !.control = next]

\* line 287: _handle_request; a mode change goes on to publish its event
LifeControlHandle ==
    /\ lifecycle.control = "handle"
    /\ \E next \in {"publish", "send"} :
         lifecycle' = [lifecycle EXCEPT !.control = next]

\* _handle_mode_change lines 444-447: _publish_event sends on
\* self._event_pub and catches zmq.Again only (lines 575-578); what a
\* closed socket raises goes up to the handler of line 290
LifeControlPublish ==
    /\ lifecycle.control = "publish"
    /\ lifecycle' = [lifecycle EXCEPT !.control =
                        IF "event" \in lifecycle.closed
                        THEN "err_send" ELSE "send"]

\* line 288: the reply goes to self._control_rep
LifeControlSend ==
    /\ lifecycle.control = "send"
    /\ lifecycle' = [lifecycle EXCEPT !.control =
                        IF "control" \in lifecycle.closed
                        THEN "err_send" ELSE "while"]

\* lines 290-297: the error reply, whose own failure is passed over
LifeControlErrSend ==
    /\ lifecycle.control = "err_send"
    /\ lifecycle' = [lifecycle EXCEPT !.control = "while"]

\* shutdown line 613: self._running = False
ShutdownStop ==
    /\ lifecycle.pc = "up"
    /\ lifecycle' = [lifecycle EXCEPT !.running = FALSE, !.pc = "join_frame"]

\* line 614: self._frame_thread.join(timeout=2) returns when the thread
\* has ended or the two seconds are over
ShutdownJoinFrame ==
    /\ lifecycle.pc = "join_frame"
    /\ lifecycle.frame = "exited" \/ FrameOutlastsJoin
    /\ lifecycle' = [lifecycle EXCEPT !.pc = "join_control"]

\* line 615: self._control_thread.join(timeout=2)
ShutdownJoinControl ==
    /\ lifecycle.pc = "join_control"
    /\ lifecycle.control = "exited" \/ ControlOutlastsJoin
    /\ lifecycle' = [lifecycle EXCEPT !.pc = "close_frame"]

\* lines 616-618: the three sockets are closed, in this order
ShutdownClose(socket, pc, next) ==
    /\ lifecycle.pc = pc
    /\ lifecycle' = [lifecycle EXCEPT !.closed = @ \cup {socket}, !.pc = next]

\* line 619: self._zmq_ctx.term(), with every socket closed
ShutdownTerm ==
    /\ lifecycle.pc = "term"
    /\ lifecycle' = [lifecycle EXCEPT !.pc = "down"]

\* one step of a worker loop
LifeWorkers ==
    \/ LifeFrameWhile
    \/ LifeFrameSnapshots
    \/ LifeFrameSend
    \/ LifeFrameSleep
    \/ LifeControlWhile
    \/ LifeControlPoll
    \/ LifeControlRecv
    \/ LifeControlHandle
    \/ LifeControlPublish
    \/ LifeControlSend
    \/ LifeControlErrSend

\* one step of shutdown()
Shutdown ==
    \/ ShutdownStop
    \/ ShutdownJoinFrame
    \/ ShutdownJoinControl
    \/ ShutdownClose("frame", "close_frame", "close_event")
    \/ ShutdownClose("event", "close_event", "close_control")
    \/ ShutdownClose("control", "close_control", "term")
    \/ ShutdownTerm

\* the rest of the plugin stands still meanwhile
LifeStep ==
    /\ LifeWorkers \/ Shutdown
    /\ UNCHANGED <<gateVars, now, chanVars, inVars, ctlVars, winVars, frVars,
                   pureVars, hooks, agent, last_new_mode, fr_data>>

InitPlugin(modes, priorities, deltas, intervals) ==
    /\ mode \in modes
    /\ human_last_input = 0
    /\ autonomous_start = 0
    /\ human_priority_ms \in priorities
    /\ now = StartTime
    /\ event_depth = 0
    /\ in_pc = "idle"
    /\ in_packet = NoPacket
    /\ in_ks = FALSE
    /\ in_old_mode = NoMode
    /\ in_result = TRUE
    /\ in_published = <<>>
    /\ kill_active = FALSE
    /\ collab_since = -1
    /\ ctl_pc = "poll"
    /\ ctl_raw = NoRaw
    /\ ctl_can_act = "none"
    /\ ctl_old_mode = NoMode
    /\ ctl_inject = "none"
    /\ ctl_resp = NoResp
    /\ ctl_sent = 0
    /\ ctl_published = <<>>
    /\ rep_awaiting = FALSE
    /\ buffers = <<>>
    /\ fbs = [o \in FbIds |-> NoFb]
    /\ window_meta = {}
    /\ focused_wid = 0
    /\ delta_only \in deltas
    /\ interval \in intervals
    /\ fr_pc = "collect"
    /\ fr_now = 0
    /\ fr_list = <<>>
    /\ fr_cur = 0
    /\ fr_results = <<>>
    /\ fr_wake = 0
    /\ frame_depth = 0
    /\ emitted = [wid \in Wids |-> 0]
    /\ lifecycle = Started
    /\ hooks = Installed
    /\ agent = Connected
    /\ last_new_mode = NoMode
    /\ fr_data = <<>>

\* the plugin after __init__, no message being encoded
InitWith(modes, priorities, deltas, intervals) ==
    /\ InitPlugin(modes, priorities, deltas, intervals)
    /\ codec = CodecIdle
    /\ wfb = NoBuffer

(***************************************************************************)
(* Inputs: requests a client may put on the control channel, and packets   *)
(* the host may hand to filter_input.                                      *)
(***************************************************************************)
Request(wire, id, type, name, fields_ok, wid) ==
    [wire |-> wire, request_id |-> id, request_type |-> type, name |-> name,
     fields_ok |-> fields_ok, wid |-> wid]

Packet(type, keyname, modifiers) ==
    [input_type |-> type, keyname |-> keyname, modifiers |-> modifiers]

\* the kill switch combination, another key, a pointer event
GatePackets ==
    {Packet("key-action", "Pause", {"Ctrl"}),
     Packet("key-action", "a", {"Ctrl"}),
     Packet("pointer-button", "", {})}

\* requests of the mode gate: actions, mode changes, the mode query
GateRequests ==
    {Request("ok", "r1", "action", "click", f, 0) : f \in BOOLEAN}
    \cup {Request("ok", "r1", "action", "mouse_down", TRUE, 0)}
    \cup {Request("ok", "r1", "mode", m, TRUE, 0) :
            m \in InputMode \cup {"turbo"}}
    \cup {Request("ok", "r1", "query", "current_mode", TRUE, 0)}

(***************************************************************************)
(* The mode gate: the host thread filtering input, and the control thread  *)
(* serving actions, mode changes and queries.  The clock stands still.     *)
(***************************************************************************)
NextGate ==
    \/ \E ev \in GatePackets : FilterInputCall(ev)
    \/ FilterKsCheck
    \/ TriggerKillRead
    \/ TriggerKillWrite
    \/ TriggerKillPublish
    \/ \E i \in 1..Len(TestPcs) : FilterModeTest(i)
    \/ FilterStamp
    \/ FilterReturn
    \/ \E raw \in GateRequests : CtlRecv(raw)
    \/ HandleActionCheck
    \/ AiCanActCollaborative
    \/ AiCanActElapsed
    \/ HandleActionRun
    \/ HandleQuery
    \/ HandleModeValidate
    \/ HandleModeWrite
    \/ HandleModePublish
    \/ CtlSend
    \/ CtlLoop
    \/ EventSubscriber

InitGate == InitWith(InputMode, 0..MaxPriorityMs, {TRUE}, {1})

SpecGate == InitGate /\ [][NextGate]_vars

(***************************************************************************)
(* The mode gate with the clock running.                                   *)
(***************************************************************************)
NextClock == NextGate \/ Tick

SpecClock == InitGate /\ [][NextClock]_vars

\* the control thread takes a step
CtlStep == ctl_pc' # ctl_pc
\* the host thread takes a step of filter_input
InStep == in_pc' # in_pc

\* C1: once a kill switch has forced the mode to observer, no agent action
\* is injected until a later change_mode grants authority again, under
\* every interleaving of the host thread and the control thread.
C1_NoInjectionAfterKill ==
    [][(ctl_inject = "none" /\ ctl_inject' = "injected") => ~kill_active]_vars

\* C2: in every mode a call of filter_input with the kill switch key event
\* sets the mode to observer, returns allow, and produces exactly one
\* kill switch event.
C2_KillSwitch ==
    [][/\ (in_pc = "ks_write" /\ InStep) => mode' = OBSERVER
       /\ (in_pc = "ks_publish" /\ InStep) =>
              /\ in_pc' = "ret"
              /\ in_result' = TRUE
              /\ Len(in_published') = 1
              /\ in_published'[1].event_type = KILL_SWITCH
       /\ (in_ks /\ InStep /\ in_pc' = "ret") => in_pc = "ks_publish"]_vars

\* the kill switch was pressed in mode m and the call is about to return
KillSwitchReturned(m) ==
    /\ in_pc = "ret"
    /\ in_ks
    /\ in_old_mode = m
    /\ mode = OBSERVER
    /\ in_result = TRUE

\* the kill switch has been served in each of the four modes; here in
\* observer mode itself
C2_Witness == KillSwitchReturned(OBSERVER)

\* C3: an action request handled while ai_can_act() is false is answered
\* success=false with a reason and calls no injection routine; an injection
\* routine is called only for a request whose check returned true.
C3_DeniedActionNotInjected ==
    /\ ctl_can_act = "no" =>
          /\ ctl_inject = "none"
          /\ ctl_pc \in {"send", "sent"}
          /\ ~ctl_resp.success
          /\ ctl_resp.error # ""
    /\ ctl_inject # "none" => ctl_can_act = "yes"

\* a refused action has been answered
C3_Witness ==
    /\ ctl_pc = "sent"
    /\ ctl_can_act = "no"
    /\ ctl_sent = 1
    /\ ctl_inject = "none"

\* C4: ai_can_act() returns true in autonomous and supervised mode, false
\* in observer mode, and in collaborative mode true exactly when the time
\* since the last human input exceeds human_priority_ms.
C4_AiCanAct ==
    [][/\ (ctl_pc = "dispatch" /\ ctl_raw.request_type = "action" /\ CtlStep)
            => (ctl_can_act' = "yes" <=> mode \in {AUTONOMOUS, SUPERVISED})
       /\ (ctl_pc = "if_collaborative" /\ CtlStep)
            => /\ mode \in {OBSERVER, COLLABORATIVE}
               /\ mode = OBSERVER => ctl_can_act' = "no"
               /\ mode = COLLABORATIVE => ctl_pc' = "elapsed"
       /\ (ctl_pc = "elapsed" /\ CtlStep)
            => /\ ctl_can_act' \in {"yes", "no"}
               /\ ctl_can_act' = "yes"
                    <=> (now - human_last_input) > human_priority_ms]_vars

\* in collaborative mode the check was made exactly human_priority_ms after
\* the human's input, and refused
C4_Witness ==
    /\ ctl_pc = "send"
    /\ ctl_can_act = "no"
    /\ mode = COLLABORATIVE
    /\ human_priority_ms > 0
    /\ now - human_last_input = human_priority_ms

\* C5: for an event that is not the kill switch, filter_input suppresses
\* exactly when the mode is autonomous: it returns False when its test for
\* autonomous finds that mode, and True on every other way out.
C5_SuppressOnlyAutonomous ==
    [][/\ (~in_ks /\ InStep /\ in_pc' = "ret")
            => (in_result' = FALSE
                   <=> (in_pc = "if_autonomous" /\ mode = AUTONOMOUS))
       /\ (in_pc = "if_autonomous" /\ mode = AUTONOMOUS /\ InStep)
            => in_pc' = "ret"
       /\ (in_pc = "if_observer" /\ InStep)
            => (in_pc' = "ret" <=> mode = OBSERVER)]_vars

\* an event that is not the kill switch has been suppressed
C5_Witness ==
    /\ in_pc = "ret"
    /\ ~in_ks
    /\ in_result = FALSE

\* C6: in collaborative mode, after a human input was filtered at time t
\* and with no further input or mode change, ai_can_act() is false up to
\* and including t + human_priority_ms and true at every later time.
C6_HumanPriorityWindow ==
    collab_since >= 0 =>
        /\ mode = COLLABORATIVE
        /\ AiCanAct <=> now > collab_since + human_priority_ms

\* the window has just run out: the agent may act again
C6_Witness ==
    /\ collab_since >= 0
    /\ human_priority_ms > 0
    /\ now = collab_since + human_priority_ms + 1
    /\ AiCanAct

\* C7: a mode request naming one of the four modes sets the mode to it
\* unconditionally, stamps the autonomous start time when the target is
\* autonomous, and publishes one mode change event carrying the old and
\* the new mode; a request with any other name is answered with a failure,
\* leaves the mode unchanged and publishes no event.
C7_ModeRequest ==
    [][/\ (ctl_pc = "mode_write" /\ CtlStep) =>
              /\ mode' = ctl_raw.name
              /\ ctl_raw.name = AUTONOMOUS => autonomous_start' = now
              /\ ctl_old_mode = mode
       /\ (ctl_pc = "mode_publish" /\ CtlStep) =>
              ctl_published' =
                  <<ModeEvent(MODE_CHANGE, ctl_old_mode, ctl_raw.name)>>
       /\ (ctl_pc = "dispatch" /\ ctl_raw.request_type = "mode" /\ CtlStep) =>
              IF ctl_raw.name \in InputMode
              THEN ctl_pc' = "mode_write"
              ELSE /\ ctl_pc' = "send"
                   /\ ~ctl_resp'.success
                   /\ mode' = mode
                   /\ ctl_published' = <<>>]_vars

(***************************************************************************)
(* The control channel: every kind of request, well formed or not, while   *)
(* the host creates, draws into, focuses and destroys windows.             *)
(***************************************************************************)
\* bytes that are not msgpack; a msgpack map with a request_id and a key
\* that is no field of ControlRequest; well formed requests
CtlRequests ==
    {Request("garbage", "", "", "", FALSE, 0),
     Request("extra_field", "r1", "query", "current_mode", TRUE, 0),
     Request("ok", "r1", "ping", "", TRUE, 0)}
    \cup {Request("ok", "r1", "action", a, TRUE, 0) :
            a \in {"click", "type_text", "mouse_down", "<nodict>"}}
    \cup {Request("ok", "r1", "action", "click", FALSE, 0)}
    \cup {Request("ok", "r1", "query", q, TRUE, w) :
            q \in QueryType \cup {"bogus", "<nodict>"}, w \in {0, 1}}
    \cup {Request("ok", "r1", "mode", m, TRUE, 0) :
            m \in {OBSERVER, COLLABORATIVE, AUTONOMOUS, "turbo", "<nodict>"}}

NextCtl ==
    \/ \E raw \in CtlRequests : CtlRecv(raw)
    \/ HandleUnknownType
    \/ HandleActionCheck
    \/ AiCanActCollaborative
    \/ AiCanActElapsed
    \/ HandleActionRun
    \/ HandleQuery
    \/ HandleModeValidate
    \/ HandleModeWrite
    \/ HandleModePublish
    \/ CtlSend
    \/ CtlErrReply
    \/ CtlLoop
    \/ \E size \in Sizes : OnNewWindow(1, size)
    \/ OnWindowDestroyed(1)
    \/ OnDraw(1, "ok")
    \/ \E wid \in {0, 1} : OnFocusChange(wid)

InitCtl == InitWith({OBSERVER}, {0}, {TRUE}, {1})

SpecCtl == InitCtl /\ [][NextCtl]_vars

\* C8: every control request received, whether it succeeds, fails, cannot
\* be decoded or yields a result that cannot be encoded, gets exactly one
\* response, and that response carries the request's identifier.
C8_OneResponseWithRequestId ==
    ctl_pc = "sent" =>
        /\ ctl_sent = 1
        /\ ctl_resp.request_id = ctl_raw.request_id

\* C9: requests are served one at a time: the socket's receive and send
\* alternate strictly, starting with a receive, and the response to a
\* request is sent before the next request is read.
C9_RecvSendAlternate ==
    /\ ctl_pc = "poll" => ~rep_awaiting
    /\ ctl_pc \notin {"poll", "sent"} => rep_awaiting /\ ctl_sent = 0
    /\ ctl_pc = "sent" => ~rep_awaiting /\ ctl_sent = 1

\* a request that could not be decoded has been answered, and the socket is
\* ready to receive again
C9_Witness ==
    /\ ctl_pc = "sent"
    /\ ctl_raw.wire = "garbage"
    /\ ctl_sent = 1
    /\ ~rep_awaiting

(***************************************************************************)
(* The framebuffers: the host creating, drawing into, resizing and         *)
(* destroying windows while the frame publisher runs its cycles.           *)
(***************************************************************************)
NextFb ==
    \/ \E wid \in Wids, size \in Sizes : OnNewWindow(wid, size)
    \/ \E wid \in Wids : OnWindowDestroyed(wid)
    \/ \E wid \in Wids, region \in Regions : OnDraw(wid, region)
    \/ \E wid \in Wids, size \in Sizes : OnWindowResize(wid, size)
    \/ FrCollect
    \/ FrVisit
    \/ FrRecord
    \/ FrCollected
    \/ FrPublish
    \/ FrSleep
    \/ FrameSubscriber
    \/ Tick

InitFb == InitWith({OBSERVER}, {0}, {TRUE}, 1..MaxInterval)

SpecFb == InitFb /\ [][NextFb]_vars

\* the framebuffer objects that exist
LiveFbs == Referenced(buffers, fr_list, fr_cur) \ {0}

\* C10: a snapshot() call returns data exactly when a region was composited
\* or a resize applied since the buffer's previous snapshot() call (or since
\* its creation): a fresh buffer yields None, the snapshot after a
\* successful update yields data and leaves the dirty flag clear, and the
\* snapshots that follow with no update or resize in between yield None.
C10_SnapshotOncePerUpdate ==
    \A o \in LiveFbs :
        /\ fbs[o].pending => SnapshotReturnsData(fbs[o])
        /\ ~fbs[o].pending => ~fbs[o].dirty /\ ~SnapshotReturnsData(fbs[o])

(***************************************************************************)
(* The framebuffers with rate limiting off (delta_only false, so that      *)
(* min_interval is 0).                                                      *)
(***************************************************************************)
InitCollect == InitWith({OBSERVER}, {0}, {FALSE}, {1})

\* the windows are created, drawn to and destroyed, never resized
NextCollect ==
    \/ \E wid \in Wids, size \in Sizes : OnNewWindow(wid, size)
    \/ \E wid \in Wids : OnWindowDestroyed(wid)
    \/ \E wid \in Wids, region \in Regions : OnDraw(wid, region)
    \/ FrCollect
    \/ FrVisit
    \/ FrRecord
    \/ FrCollected
    \/ FrPublish
    \/ FrSleep
    \/ FrameSubscriber
    \/ Tick

SpecCollect == InitCollect /\ [][NextCollect]_vars

\* get_dirty_snapshots takes the next buffer off its list
FrTakes == fr_pc = "visit" /\ fr_list # <<>> /\ Len(fr_list') # Len(fr_list)

\* C11: with rate limiting off, get_dirty_snapshots returns exactly one
\* entry, tagged with the window's id, for each window it finds dirty and
\* none for a clean one, and leaves each window clean, so that a call that
\* follows with no update in between returns nothing.
C11_OneEntryPerDirtyWindow ==
    [][/\ FrTakes =>
            LET o == Head(fr_list)
            IN  IF fbs[o].dirty
                THEN /\ fr_pc' = "record"
                     /\ fr_cur' = o
                     /\ ~fbs'[o].dirty
                ELSE /\ fr_pc' = "visit"
                     /\ fr_results' = fr_results
       /\ (fr_pc = "record" /\ fr_pc' = "visit") =>
            /\ Len(fr_results') = Len(fr_results) + 1
            /\ fr_results'[Len(fr_results')].wid = fbs[fr_cur].wid]_vars

(***************************************************************************)
(* Rate limiting: the publisher with delta_only set, so min_interval is    *)
(* the frame interval, under a wall clock that may also be set back.       *)
(***************************************************************************)
NextRate ==
    \/ \E size \in Sizes : OnNewWindow(1, size)
    \/ OnWindowDestroyed(1)
    \/ \E region \in Regions : OnDraw(1, region)
    \/ \E size \in Sizes : OnWindowResize(1, size)
    \/ FrCollect
    \/ FrVisit
    \/ FrRecord
    \/ FrCollected
    \/ FrPublish
    \/ FrSleep
    \/ FrameSubscriber
    \/ Tick
    \/ ClockStepBack

SpecRate == InitFb /\ [][NextRate]_vars

C13_SequenceIncreases ==
    [][(fr_pc = "record" /\ fr_pc' = "visit") =>
          fbs[fr_cur].sequence > emitted[fbs[fr_cur].wid]]_vars

(***************************************************************************)
(* Queries.                                                                *)
(***************************************************************************)
\* the control thread handles the query it received
QueryHandled ==
    /\ ctl_pc = "dispatch"
    /\ ctl_pc' = "send"
    /\ ctl_raw.request_type = "query"

\* the window a screenshot query names: payload.get("wid", focused)
ScreenshotWid == IF ctl_raw.wid = 0 THEN focused_wid ELSE ctl_raw.wid

\* C14: a screenshot query for a registered window is answered with the
\* encoded image of the window's current content, also when the window is
\* not dirty; the answer is never empty or absent.
C14_ScreenshotHasContent ==
    [][(QueryHandled /\ ctl_raw.name = "screenshot"
                     /\ GetFb(ScreenshotWid) # 0) =>
          /\ ctl_resp'.success
          /\ ctl_resp'.data = "bytes"]_vars

\* C15: handling a query of any kind leaves the mode, the registry, every
\* buffer's dirty flag and sequence number, and with them the frames the
\* publish cycle will publish next, as they were.
C15_QueryReadOnly ==
    [][QueryHandled =>
          /\ mode' = mode
          /\ buffers' = buffers
          /\ window_meta' = window_meta
          /\ \A o \in FbIds : /\ fbs'[o].dirty = fbs[o].dirty
                              /\ fbs'[o].sequence = fbs[o].sequence]_vars

(***************************************************************************)
(* Operations on a window id the registry does not hold.                   *)
(***************************************************************************)
\* update_region, resize_window or destroy_window is applied to wid
AppliedTo(wid) ==
    \/ \E region \in Regions : OnDraw(wid, region)
    \/ \E size \in Sizes : OnWindowResize(wid, size)
    \/ OnWindowDestroyed(wid)

\* window 1 comes and goes, window 2 is never created; the operations are
\* applied to both
NextUnknown ==
    \/ \E size \in Sizes : OnNewWindow(1, size)
    \/ \E wid \in Wids : AppliedTo(wid)
    \/ FrCollect
    \/ FrVisit
    \/ FrRecord
    \/ FrCollected
    \/ FrPublish
    \/ FrSleep
    \/ FrameSubscriber
    \/ Tick

SpecUnknown == InitCollect /\ [][NextUnknown]_vars

\* C16: update_region, resize_window and destroy_window applied to an id
\* that was never created or is already destroyed complete (the step
\* exists and is the whole callback), leave the registered ids as they
\* were and leave every other window's buffer, dirty flag and sequence
\* number as they were.
C16_UnknownWidNoOp ==
    [][\A wid \in Wids :
          (GetFb(wid) = 0 /\ AppliedTo(wid)) =>
              /\ buffers' = buffers
              /\ fbs' = fbs]_vars

\* an id is not registered while another window is registered, dirty and
\* already snapshotted: the operations on the unknown id leave this state
\* as it is, so it is the state before and after them, and the resize or
\* destroy of the unknown id has put its event on the channel
C16_Witness ==
    \E wid \in Wids, other \in Wids :
        /\ GetFb(wid) = 0
        /\ wid \notin window_meta
        /\ GetFb(other) # 0
        /\ fbs[other].dirty
        /\ fbs[other].sequence > 0
        /\ in_pc = "idle"
        /\ event_depth > 0

(***************************************************************************)
(* Responses to requests that fail, and to actions.                        *)
(***************************************************************************)
\* the control thread has built the response to the request it handled
Answered == ctl_pc \in {"dispatch", "if_collaborative", "elapsed", "act"}
            /\ ctl_pc' = "send"

\* _handle_action has run the dispatch of lines 329-358
ActionRun == ctl_pc = "act" /\ ctl_pc' = "send"

\* the request being answered failed: authority denied, unknown action,
\* query or request kind, missing payload field, unknown window id, invalid
\* mode name, injection error
RequestFailed ==
    \/ ctl_raw.request_type \notin {"action", "query", "mode"}
    \/ /\ ctl_raw.request_type = "action"
       /\ \/ ctl_can_act' = "no"
          \/ ctl_raw.name \notin ActionType
          \/ ~ctl_raw.fields_ok
          \/ ctl_inject' = "failed"
    \/ /\ ctl_raw.request_type = "query"
       /\ \/ ctl_raw.name \notin QueryType
          \/ ctl_raw.name = "window_info" /\ ctl_raw.wid \notin window_meta
          \/ ctl_raw.name = "screenshot" /\ GetFb(ScreenshotWid) = 0
    \/ /\ ctl_raw.request_type = "mode"
       /\ ~ValidModeName(ctl_raw.name)

\* C17: every failed action, query or mode request (authority denied,
\* unknown action, query or request kind, missing payload field, unknown
\* window id, invalid mode name, injection error) is answered success=false
\* with a non-empty error string.
C17_FailureReported ==
    [][(Answered /\ RequestFailed) =>
          /\ ~ctl_resp'.success
          /\ ctl_resp'.error # ""]_vars

\* C18: for every action kind an authorized request is answered
\* success=true only if the sink injected without error; if the sink fails
\* the answer is success=false with the sink's error text.
C18_SuccessMeansInjected ==
    [][ActionRun =>
          /\ ctl_resp'.success => ctl_inject' = "injected"
          /\ ctl_inject' = "failed" =>
                /\ ~ctl_resp'.success
                /\ ctl_resp'.error = "sink error"]_vars

\* C19: each of the twelve action kinds, when well formed and authorized,
\* is dispatched to an injection routine and is not rejected as unknown.
C19_EveryActionKindDispatched ==
    [][(ActionRun /\ ctl_raw.name \in ActionType /\ ctl_raw.fields_ok) =>
          /\ ctl_inject' # "none"
          /\ ctl_resp'.error # "Unknown action"]_vars

(***************************************************************************)
(* The two worker loops together: requests that fail in every way the      *)
(* control loop recovers from, and a window whose snapshot may raise.      *)
(***************************************************************************)
LoopRequests ==
    {Request("garbage", "", "", "", FALSE, 0),
     Request("ok", "r1", "ping", "", TRUE, 0),
     Request("ok", "r1", "action", "click", TRUE, 0),
     Request("ok", "r1", "action", "click", FALSE, 0),
     Request("ok", "r1", "query", "window_list", TRUE, 0),
     Request("ok", "r1", "mode", "turbo", TRUE, 0),
     Request("ok", "r1", "mode", COLLABORATIVE, TRUE, 0),
     Request("ok", "r1", "mode", AUTONOMOUS, TRUE, 0)}

\* one iteration step of _control_handler_loop
CtlThread ==
    \/ \E raw \in LoopRequests : CtlRecv(raw)
    \/ HandleUnknownType
    \/ HandleActionCheck
    \/ AiCanActCollaborative
    \/ AiCanActElapsed
    \/ HandleActionRun
    \/ HandleQuery
    \/ HandleModeValidate
    \/ HandleModeWrite
    \/ HandleModePublish
    \/ CtlSend
    \/ CtlErrReply
    \/ CtlLoop

\* one step of _frame_publisher_loop that is not the wait for the clock
FrThread ==
    \/ FrVisit
    \/ FrRecord
    \/ FrCollected
    \/ FrPublish
    \/ FrSleep

NextLoops ==
    \/ CtlThread
    \/ FrCollect
    \/ FrThread
    \/ FrameSubscriber
    \/ \E size \in Sizes : OnNewWindow(1, size)
    \/ OnDraw(1, "ok")
    \/ Tick

SpecLoops == InitCtl /\ [][NextLoops]_vars

\* no snapshot is held back by the bound on sequence numbers
BelowMaxSeq == \A o \in FbIds : fbs[o].sequence < MaxSeq

\* C20: no recoverable error ends a worker loop.  Whatever the request
\* was (undecodable, denied, invalid, injection failed), the control loop
\* is at a statement of its body with its next step open to it, up to the
\* poll for the next request; the frame loop, after any exception in a
\* cycle, is in its sleep before the next cycle or at a statement of the
\* cycle with its next step open to it.
C20_LoopsGoOn ==
    /\ ctl_pc \in {"poll", "dispatch", "if_collaborative", "elapsed", "act",
                    "mode_write", "mode_publish", "send", "err_reply", "sent"}
    /\ ENABLED CtlThread
    /\ fr_pc \in {"collect", "visit", "record", "publish"}
    /\ (fr_pc # "collect" /\ BelowMaxSeq) => ENABLED FrThread

\* the control loop has answered an action whose injection failed, and the
\* frame loop is in a cycle after one that a raising snapshot ended: the
\* sliver window is clean and was snapshotted but never returned
C20_Witness ==
    /\ ctl_pc = "sent"
    /\ ctl_inject = "failed"
    /\ ~ctl_resp.success
    /\ fr_pc = "visit"
    /\ GetFb(1) # 0
    /\ EncodeRaises(fbs[1].size)
    /\ ~fbs[1].dirty
    /\ fbs[1].sequence > 0
    /\ emitted[1] = 0

(***************************************************************************)
(* Publishing the frames of one cycle.                                     *)
(***************************************************************************)
\* the for loop of _frame_publisher_loop handles the next collected frame
FrSends == fr_pc = "publish" /\ fr_results # <<>> /\ fr_results' # fr_results

\* C21: within one publish cycle a failure to publish the frame of one
\* window (the outbound channel is saturated) leaves the frames of the
\* remaining windows collected in that cycle to be published: the loop
\* goes on with the frame after the one it handled.
C21_PublishFailureIsolated ==
    [][FrSends => fr_results' = Tail(fr_results)]_vars

(***************************************************************************)
(* The message round trip: a message of any of the four shapes is          *)
(* serialised and the bytes are deserialised.                              *)
(***************************************************************************)
InitCodec ==
    /\ InitPlugin({OBSERVER}, {0}, {TRUE}, {1})
    /\ codec \in {[pc |-> "built", m |-> msg, wire |-> NoMessage,
                   out |-> NoMessage] : msg \in Messages}
    /\ wfb = NoBuffer

NextCodec == Serialise \/ Deserialise

SpecCodec == InitCodec /\ [][NextCodec]_vars

\* C22: for each of the four message shapes, deserialise(serialise(m)) is a
\* message equal to m in every field, for every valid message m.
C22_RoundTrip == codec.pc = "done" => codec.out = codec.m

(***************************************************************************)
(* Forward compatibility: the receiver decodes what a sender with one      *)
(* field more has encoded.                                                 *)
(***************************************************************************)
NextForward == Serialise \/ SendNewerVersion \/ Deserialise

SpecForward == InitCodec /\ [][NextForward]_vars

\* C23: decoding a message whose encoding contains an additional field
\* unknown to the receiver does not fail: deserialise returns the message
\* with its known fields as decoded.
C23_UnknownFieldTolerated ==
    (/\ codec.pc = "done"
     /\ "added_field" \in DOMAIN codec.wire
     /\ \A f \in DOMAIN codec.wire : ~UnpackRaises(codec.wire[f])) =>
        codec.out = [f \in DOMAIN codec.m |-> Unpackb(codec.wire[f])]

(***************************************************************************)
(* One WindowFramebuffer: created in some size, then updated, resized and  *)
(* snapshotted in any order.                                               *)
(***************************************************************************)
\* sizes within max_dimension and one twice as wide
BufSizes == ((1..MaxDim) \X (1..MaxDim)) \cup {<<2 * MaxDim, MaxDim>>}
RegionSizes == {<<1, 1>>, <<2, 1>>, <<2, 2>>}
Origins == (0..1) \X (0..1)
\* a region's encoding and whether its payload decodes: regions that are
\* composited, payloads that fail to decode, an encoding not supported
Payloads == {<<"rgb24", TRUE>>, <<"rgb24", FALSE>>, <<"jpeg", FALSE>>,
             <<"h264", TRUE>>}
\* the configured scale (1.0) and that of test_snapshot_scaling (0.5)
Scales == {<<1, 1>>, <<1, 2>>}

InitBuffer ==
    /\ InitPlugin({OBSERVER}, {0}, {TRUE}, {1})
    /\ codec = CodecIdle
    /\ wfb \in {NewWindowFramebuffer(size) : size \in BufSizes}

NextBuffer ==
    \/ \E o \in Origins, rsize \in RegionSizes, d \in Payloads :
         WfbUpdateRegion(o[1], o[2], rsize, d[1], d[2])
    \/ \E size \in BufSizes : WfbResize(size)
    \/ \E scale \in Scales : WfbSnapshot(scale, MaxDim)

SpecBuffer == InitBuffer /\ [][NextBuffer]_vars

\* C24: after resize(w, h) the image's dimensions and the recorded width
\* and height are (w, h), dirty is set, and every pixel inside both the old
\* and the new bounds keeps its value; in every reachable state the image's
\* dimensions are those of the most recently applied resize, or of the
\* creation if there was none.
C24_Resize ==
    /\ [](/\ wfb.image.size = wfb.applied
          /\ <<wfb.width, wfb.height>> = wfb.applied)
    /\ [][\A size \in BufSizes :
            WfbResize(size) =>
                /\ wfb'.image.size = size
                /\ <<wfb'.width, wfb'.height>> = size
                /\ wfb'.dirty
                /\ \A p \in Pixels(size) \cap Pixels(wfb.image.size) :
                     wfb'.image.px[p] = wfb.image.px[p]]_vars

\* a buffer with a composited pixel at the origin was resized to a size
\* other than that of its creation, and the pixel is still there
C24_Witness ==
    /\ wfb.resized
    /\ wfb.applied = <<1, 1>>
    /\ wfb.image.px[<<0, 0>>] = Colour
    /\ wfb.dirty

(***************************************************************************)
(* The size of a snapshot: buffers of the sizes above and one that is long *)
(* on both sides, drawn to, resized and snapshotted.                       *)
(***************************************************************************)
ScaleSizes == BufSizes \cup {<<LongDim, LongDim>>}

InitScale ==
    /\ InitPlugin({OBSERVER}, {0}, {TRUE}, {1})
    /\ codec = CodecIdle
    /\ wfb \in {NewWindowFramebuffer(size) : size \in ScaleSizes}

NextScale ==
    \/ WfbUpdateRegion(0, 0, <<1, 1>>, "rgb24", TRUE)
    \/ \E size \in ScaleSizes : WfbResize(size)
    \/ \E scale \in Scales : WfbSnapshot(scale, MaxDim)

SpecScale == InitScale /\ [][NextScale]_vars

\* C25: the image snapshot produces has dimensions (floor(w * scale),
\* floor(h * scale)) when scale < 1; otherwise, when max(w, h) > max_dim,
\* its larger dimension is max_dim and the other one is scaled by the same
\* ratio; otherwise it has the buffer's dimensions (w, h).
C25_SnapshotSize ==
    wfb.shot.kind = "image" =>
        LET w == wfb.shot.of[1]
            h == wfb.shot.of[2]
            n == wfb.shot.scale[1]
            d == wfb.shot.scale[2]
            m == wfb.shot.max_dim
        IN  IF n < d
            THEN wfb.shot.size = <<(w * n) \div d, (h * n) \div d>>
            ELSE IF Max(w, h) > m
            THEN /\ Max(wfb.shot.size[1], wfb.shot.size[2]) = m
                 /\ wfb.shot.size[1] * h <= w * wfb.shot.size[2] + h
                 /\ wfb.shot.size[2] * w <= h * wfb.shot.size[1] + w
            ELSE wfb.shot.size = <<w, h>>

(***************************************************************************)
(* Updates, good and bad, of one buffer of the largest size that is not    *)
(* scaled, with a resize and snapshots in between.                         *)
(***************************************************************************)
InitUpdate ==
    /\ InitPlugin({OBSERVER}, {0}, {TRUE}, {1})
    /\ codec = CodecIdle
    /\ wfb = NewWindowFramebuffer(<<MaxDim, MaxDim>>)

NextUpdate ==
    \/ \E o \in Origins, rsize \in RegionSizes, d \in Payloads :
         WfbUpdateRegion(o[1], o[2], rsize, d[1], d[2])
    \/ \E size \in {<<1, 1>>, <<MaxDim, MaxDim>>} : WfbResize(size)
    \/ WfbSnapshot(<<1, 1>>, MaxDim)

SpecUpdate == InitUpdate /\ [][NextUpdate]_vars

\* C26: update_region with an unsupported encoding, or with a payload that
\* fails to decode for a supported one, completes and leaves the image, the
\* dirty flag and the sequence counter as they were; an update_region that
\* decodes is composited, also after such a call.
C26_RejectedUpdateNoOp ==
    [][\A o \in Origins, rsize \in RegionSizes, d \in Payloads :
          WfbUpdateRegion(o[1], o[2], rsize, d[1], d[2]) =>
              IF d[1] \notin SupportedCodings \/ ~d[2]
              THEN /\ wfb'.image = wfb.image
                   /\ wfb'.dirty = wfb.dirty
                   /\ wfb'.sequence = wfb.sequence
              ELSE /\ wfb'.dirty
                   /\ \A p \in Covered(o[1], o[2], rsize)
                                 \cap Pixels(wfb.image.size) :
                        wfb'.image.px[p] = Colour]_vars

\* an update was rejected while the buffer was clean and still black, and
\* an update after it was composited
C26_Witness ==
    /\ wfb.log = "composited_after"
    /\ wfb.sequence = 0
    /\ wfb.dirty
    /\ ~wfb.resized
    /\ wfb.image.px[<<0, 0>>] = Colour

(***************************************************************************)
(* Starvation: windows are created once and drawn to, as often as the      *)
(* sequence numbers of the model allow, while the frame publisher runs its *)
(* cycles and time passes; the publisher thread is scheduled whenever it   *)
(* can take a step.                                                        *)
(***************************************************************************)
NextStarve ==
    \/ \E wid \in Wids, size \in Sizes :
         GetFb(wid) = 0 /\ OnNewWindow(wid, size)
    \/ \E wid \in Wids :
         /\ GetFb(wid) # 0
         /\ fbs[wid].sequence < MaxSeq
         /\ OnDraw(wid, "ok")
    \/ FrCollect
    \/ FrThread
    \/ Tick

\* a publish period below the millisecond of the clock: the sleep of line
\* 268 never waits for a tick, and the cycles go on when the clock has
\* reached its last tick
InitStarve == InitWith({OBSERVER}, {0}, {FALSE}, {0})

SpecStarve ==
    /\ InitStarve
    /\ [][NextStarve]_vars
    /\ WF_vars(FrCollect \/ FrThread)
    /\ WF_vars(Tick)

\* the collection under way has an entry for wid
Returned(wid) == \E i \in 1..Len(fr_results) : fr_results[i].wid = wid

\* C27: no window is starved.  With the publish cycle scheduled fairly, a
\* registered window that has become dirty is eventually returned by the
\* cycle's collection, whatever is drawn to other windows meanwhile.
C27_NoStarvation ==
    \A wid \in Wids :
        (GetFb(wid) # 0 /\ fbs[wid].dirty /\ ~Returned(wid))
            ~> (Returned(wid) \/ GetFb(wid) = 0)

(***************************************************************************)
(* Shutdown.                                                               *)
(***************************************************************************)
NextLife == LifeStep

SpecLife == InitCtl /\ [][NextLife]_vars

\* a step of a worker loop that calls into a socket
UsesSocket(socket) ==
    \/ /\ socket = "frame"
       /\ lifecycle.frame = "send"
       /\ lifecycle'.frame # lifecycle.frame
    \/ /\ socket = "event"
       /\ lifecycle.control = "publish"
       /\ lifecycle'.control # lifecycle.control
    \/ /\ socket = "control"
       /\ lifecycle.control \in {"poll", "recv", "send", "err_send"}
       /\ lifecycle'.control # lifecycle.control

\* C28: shutdown() closes the frame, event and control sockets only after
\* both worker loops have finished what they were doing and have exited,
\* and no worker loop uses a socket that is closed.
C28_CloseAfterWorkers ==
    /\ [](lifecycle.closed # {} =>
            lifecycle.frame = "exited" /\ lifecycle.control = "exited")
    /\ [][\A socket \in Sockets :
            UsesSocket(socket) => socket \notin lifecycle.closed]_vars

(***************************************************************************)
(* Recognising the kill switch: the host thread filters every input event  *)
(* the host may deliver, in every mode.                                    *)
(***************************************************************************)
NextKeys ==
    \/ \E ev \in InputEvents : FilterInputCall(ev)
    \/ FilterKsCheck
    \/ TriggerKillRead
    \/ TriggerKillWrite
    \/ TriggerKillPublish
    \/ \E i \in 1..Len(TestPcs) : FilterModeTest(i)
    \/ FilterStamp
    \/ FilterReturn
    \/ EventSubscriber

SpecKeys == InitGate /\ [][NextKeys]_vars

\* strings that differ in the case of their letters only
CaseClasses == {{"Pause", "PAUSE", "pause"}, {"Ctrl", "ctrl"}}
SameIgnoringCase(a, b) == a = b \/ \E c \in CaseClasses : a \in c /\ b \in c

\* the configured combination: its key and the modifiers it requires
ConfiguredKey == KillSwitchParts[Len(KillSwitchParts)]
ConfiguredModifiers ==
    {KillSwitchParts[i] : i \in 1..(Len(KillSwitchParts) - 1)}

\* C29: an input event is taken for the kill switch exactly when it is a
\* key event whose key name is the configured key and whose modifiers
\* include every configured modifier, both compared without regard to
\* case; the filtering of any other event never changes the mode.
C29_KillSwitchRecognised ==
    [][/\ (in_pc = "ks_check" /\ InStep) =>
            (in_ks' <=>
                /\ in_packet.input_type = "key-action"
                /\ SameIgnoringCase(in_packet.keyname, ConfiguredKey)
                /\ \A c \in ConfiguredModifiers :
                     \E m \in in_packet.modifiers : SameIgnoringCase(m, c))
       /\ (InStep /\ ~in_ks') => mode' = mode]_vars

\* "PAUSE" with Ctrl and Shift held, or "Pause" with Ctrl, was taken for
\* the kill switch in a mode other than observer and is about to trigger
C29_Witness == in_pc = "ks_read" /\ in_ks /\ mode # OBSERVER /\ ~kill_active

(***************************************************************************)
(* Mutual exclusion of the mode transitions.                               *)
(***************************************************************************)
\* the host thread has read the old mode in _trigger_kill_switch and has
\* not yet published the kill switch event
KillSwitchInProgress == in_pc \in {"ks_write", "ks_publish"}

\* the control thread has read the old mode in _handle_mode_change and has
\* not yet published the mode change event
ModeChangeInProgress == ctl_pc \in {"mode_write", "mode_publish"}

\* C30: the accesses of the host thread and of the control thread to the
\* mode are serialized: once one transition has read the old mode, no
\* other transition reads, writes or publishes before the first has
\* published its event.
C30_TransitionsSerialized == ~(KillSwitchInProgress /\ ModeChangeInProgress)

(***************************************************************************)
(* update_region concurrent with snapshot.                                 *)
(***************************************************************************)
InitShared ==
    /\ InitPlugin({OBSERVER}, {0}, {TRUE}, {1})
    /\ codec = CodecIdle
    /\ wfb = NewSharedFramebuffer(<<MaxDim, MaxDim>>)

NextShared ==
    \/ \E o \in Origins, rsize \in RegionSizes : UpdateCall(o[1], o[2], rsize)
    \/ UpdateLock
    \/ UpdatePaste
    \/ UpdateDirty
    \/ SnapshotCall
    \/ SnapshotLock
    \/ SnapshotTest
    \/ SnapshotCopy
    \/ SnapshotClear

SpecShared == InitShared /\ [][NextShared]_vars

\* the region of update k is in the copy as a whole (where no later update
\* has painted over it, in colour k)
HoldsUpdate(copy, k) == \A p \in wfb.drawn[k] : copy[p] >= k
\* no pixel of the copy comes from update k or a later one
LacksUpdate(copy, k) == \A p \in wfb.drawn[k] : copy[p] < k

\* C31: whatever the interleaving of update_region with a snapshot of the
\* same window, the copy of the snapshot holds the region as a whole or
\* not at all, and an update that has returned and is not in the last copy
\* has left the buffer dirty for the next snapshot.
C31_NeverTornNeverLost ==
    /\ \A k \in 1..Len(wfb.drawn) :
         HoldsUpdate(wfb.copied, k) \/ LacksUpdate(wfb.copied, k)
    /\ \A k \in 1..wfb.done : HoldsUpdate(wfb.copied, k) \/ wfb.dirty

\* the second update was called while a snapshot held the lock; the
\* snapshot's copy has the first update and nothing of the second, which
\* has returned and left the buffer dirty
C31_Witness ==
    /\ wfb.waited
    /\ wfb.sequence = 1
    /\ wfb.done = 2
    /\ HoldsUpdate(wfb.copied, 1)
    /\ LacksUpdate(wfb.copied, 2)
    /\ wfb.dirty

(***************************************************************************)
(* Who writes the mode: the mode gate with the clock running, next to the  *)
(* callbacks of one window and the frame publisher.  The callbacks and the *)
(* publisher neither read nor write a variable of the gate, so a publish   *)
(* cycle and a callback are taken while no input event and no request is   *)
(* being handled, and the other way round.                                 *)
(***************************************************************************)
ModeRequests ==
    {Request("ok", "r1", "action", "click", TRUE, 0),
     Request("ok", "r1", "query", "current_mode", TRUE, 0),
     Request("ok", "r1", "mode", COLLABORATIVE, TRUE, 0),
     Request("ok", "r1", "mode", "turbo", TRUE, 0)}

\* the kill switch combination and another key
ModePackets ==
    {Packet("key-action", "Pause", {"Ctrl"}),
     Packet("key-action", "a", {"Ctrl"})}

GateQuiet == in_pc = "idle" /\ ctl_pc = "poll"
FrameQuiet == fr_pc = "collect"

NextMode ==
    \/ \E ev \in ModePackets : FrameQuiet /\ FilterInputCall(ev)
    \/ FilterKsCheck
    \/ TriggerKillRead
    \/ TriggerKillWrite
    \/ TriggerKillPublish
    \/ \E i \in 1..Len(TestPcs) : FilterModeTest(i)
    \/ FilterStamp
    \/ FilterReturn
    \/ \E raw \in ModeRequests : FrameQuiet /\ CtlRecv(raw)
    \/ HandleActionCheck
    \/ AiCanActCollaborative
    \/ AiCanActElapsed
    \/ HandleActionRun
    \/ HandleQuery
    \/ HandleModeValidate
    \/ HandleModeWrite
    \/ HandleModePublish
    \/ CtlSend
    \/ CtlLoop
    \/ GateQuiet /\ OnNewWindow(1, <<MaxDim, MaxDim>>)
    \/ GateQuiet /\ OnWindowDestroyed(1)
    \/ GateQuiet /\ OnDraw(1, "ok")
    \/ GateQuiet /\ FrCollect
    \/ GateQuiet /\ FrThread
    \/ Tick

InitMode == InitWith({AUTONOMOUS}, {0}, {FALSE}, {1})

SpecMode == InitMode /\ [][NextMode]_vars

\* C32: the mode changes only in the write of the kill switch, to observer,
\* and in the write of a mode request that names one of the four modes, to
\* that mode; no other step of the host thread, the control thread, the
\* window callbacks, the publisher or the clock changes it.
C32_ModeWriters ==
    [][mode' # mode =>
         \/ in_pc = "ks_write" /\ InStep /\ mode' = OBSERVER
         \/ /\ ctl_pc = "mode_write"
            /\ CtlStep
            /\ ctl_raw.request_type = "mode"
            /\ ctl_raw.name \in InputMode
            /\ mode' = ctl_raw.name]_vars

\* the session has been in autonomous mode for the whole run of the clock
\* with a window published, an action served and a human event suppressed
C32_Witness ==
    /\ mode = AUTONOMOUS
    /\ now = MaxTime
    /\ autonomous_start = 0
    /\ emitted[1] > 0
    /\ in_pc = "ret" /\ ~in_result
    /\ ctl_inject = "injected"

(***************************************************************************)
(* Draw packets through the installed hook.                                *)
(***************************************************************************)
NextHooks ==
    \/ \E size \in Sizes : OnNewWindow(1, size)
    \/ OnWindowDestroyed(1)
    \/ \E size \in Sizes : OnWindowResize(1, size)
    \/ \E wid \in Wids, region \in Regions : HookedDraw(wid, region)
    \/ FrCollect
    \/ FrThread
    \/ Tick

SpecHooks == InitCollect /\ [][NextHooks]_vars

\* the server processes a draw packet
DrawProcessed == hooks'.packets = hooks.packets + 1

\* C33: with the hooks installed, a draw packet the server processes for a
\* registered window in an encoding that decodes leaves that window's
\* buffer dirty, and every draw packet is handed on to the server's own
\* handler.
C33_DrawHooked ==
    [][DrawProcessed =>
         /\ hooks'.forwarded = hooks.forwarded + 1
         /\ (GetFb(hooks'.last.wid) # 0 /\ hooks'.last.region = "ok") =>
                fbs'[GetFb(hooks'.last.wid)].dirty]_vars

(***************************************************************************)
(* Waiting for a frame on the client.                                      *)
(***************************************************************************)
NextWait ==
    \/ \E wid \in Wids : AgentReceive(wid)
    \/ \E wid \in {0} \cup Wids : WaitForFrameCall(wid)
    \/ WaitForFrameLoop
    \/ WaitForFrameSleep
    \/ WaitForFrameReturn
    \/ Tick

SpecWait == InitCollect /\ [][NextWait]_vars

\* C34: wait_for_frame waits for a fresh frame.  A frame it returns was
\* received after the call began, and it returns None only when the
\* timeout has passed.
C34_WaitsForFreshFrame ==
    agent.pc = "returned" =>
        IF agent.result = NoFrame
        THEN now >= agent.deadline
        ELSE agent.result > agent.began

(***************************************************************************)
(* The publish cycle next to screenshot queries for the same window.       *)
(***************************************************************************)
NextShot ==
    \/ GetFb(1) = 0 /\ OnNewWindow(1, <<MaxDim, MaxDim>>)
    \/ OnDraw(1, "ok")
    \/ CtlRecv(Request("ok", "r1", "query", "screenshot", TRUE, 1))
    \/ HandleQuery
    \/ CtlSend
    \/ CtlLoop
    \/ FrCollect
    \/ FrThread
    \/ Tick

SpecShot == InitCollect /\ [][NextShot]_vars

\* the collection holds the data of a snapshot it has not yet entered
CopyHeld == fr_pc = "record" /\ fr_pc' = "record"

\* C35: an entry of get_dirty_snapshots carries the sequence number that
\* was assigned when its data was copied.  The entry takes the number the
\* buffer has when the entry is made, so between the copy and the entry no
\* step of another thread changes the number of that buffer.
C35_EntrySequenceOfCopy ==
    [][CopyHeld => fbs'[fr_cur].sequence = fbs[fr_cur].sequence]_vars

(***************************************************************************)
(* The stream of mode events.                                              *)
(***************************************************************************)
\* a mode change or kill switch event is handed to _publish_event
ModeEventPublished ==
    \/ in_pc = "ks_publish" /\ InStep
    \/ ctl_pc = "mode_publish" /\ CtlStep

\* the old_mode of the event that step publishes
PublishedOldMode ==
    IF in_pc = "ks_publish" /\ InStep THEN in_old_mode ELSE ctl_old_mode

\* C36: when no mode transition is in progress, the last mode change or
\* kill switch event published names the current mode as its new mode,
\* and every such event names as its old mode the new mode of the one
\* published before it, however kill switches and mode requests interleave.
C36_EventsFollowMode ==
    /\ []((last_new_mode # NoMode /\ ~KillSwitchInProgress
              /\ ~ModeChangeInProgress)
            => last_new_mode = mode)
    /\ [][(ModeEventPublished /\ last_new_mode # NoMode)
            => PublishedOldMode = last_new_mode]_vars

(***************************************************************************)
(* A snapshot() that raises in the middle of a publisher cycle.            *)
(***************************************************************************)
\* the snapshot() call of get_dirty_snapshots raises and ends the cycle
SnapshotAborts ==
    /\ fr_pc = "visit"
    /\ fr_list # <<>>
    /\ ~RateLimited(fbs[Head(fr_list)])
    /\ SnapshotRaises(fbs[Head(fr_list)])
    /\ fr_pc' = "collect"

\* the registered buffers whose change the aborted cycle took and did not
\* deliver: the one whose snapshot() raised, and those already in the
\* result list that is dropped
Undelivered ==
    {o \in SeqElems(buffers) :
        \/ o = Head(fr_list)
        \/ \E i \in 1..Len(fr_results) :
              /\ fr_results[i].wid = fbs[o].wid
              /\ fr_results[i].sequence = fbs[o].sequence}

\* C37: when a snapshot() call of the publisher cycle raises, the window it
\* was taken of, and every window the cycle had already snapshotted, is
\* dirty afterwards, so that a later cycle delivers the change.
C37_FailedSnapshotStaysDirty ==
    [][SnapshotAborts => \A o \in Undelivered : fbs'[o].dirty]_vars

(***************************************************************************)
(* The dimensions a frame message declares.  Windows here are within       *)
(* max_dimension or twice as wide, which snapshot() scales down.           *)
(***************************************************************************)
WideSizes == {<<MaxDim, MaxDim>>, <<2 * MaxDim, 2>>}

NextDims ==
    \/ \E size \in WideSizes : OnNewWindow(1, size)
    \/ OnWindowDestroyed(1)
    \/ OnDraw(1, "ok")
    \/ \E size \in WideSizes : OnWindowResize(1, size)
    \/ FrCollect
    \/ FrThread
    \/ FrameSubscriber
    \/ Tick

SpecDims == InitCollect /\ [][NextDims]_vars

\* _frame_publisher_loop lines 238-243: the width and height of the frame
\* message are those of the window's metadata now, which on_new_window and
\* on_window_resize keep equal to the registered buffer's, and 0 when the
\* window has none
MetaSize(wid) ==
    IF wid \in window_meta /\ GetFb(wid) # 0
    THEN fbs[GetFb(wid)].size
    ELSE <<0, 0>>

\* the publisher puts a frame message on the frame channel
FramePublished ==
    fr_pc = "publish" /\ fr_results # <<>> /\ frame_depth' > frame_depth

DestroyPublished(wid) == wid \notin window_meta

FocusedDestroyed ==
    /\ focused_wid # 0
    /\ focused_wid \in window_meta
    /\ focused_wid \notin window_meta'

============================================================================
